---------------------------- MODULE Spec2Model ----------------------------
(***************************************************************************)
(* Caching and read-model consistency layer of the truematch python        *)
(* service: the per-instance TTLCache (app/cache.py), the invalidation     *)
(* glue (app/cache_bus.py), the Redis pub/sub bus and shared cache         *)
(* (app/redis_bus.py, app/redis_cache.py), the latest-N window read model  *)
(* (app/readmodels.py) and the group message handlers                      *)
(* (app/routers/messages.py).                                              *)
(***************************************************************************)
EXTENDS Integers, Sequences, FiniteSets, TLC

(***************************************************************************)
(* Bounds of the model.                                                    *)
(***************************************************************************)
\* the clock runs from 1 to MaxTime
MaxTime == 3
\* messages created in one run (create_message requests)
MaxMsgs == 2
\* edit, delete and reaction requests in one run
MaxWrites == 1
\* get_latest_messages requests in one run
MaxReads == 2
\* requests of any kind in one run
MaxRequests == 4
\* TTLCache calls by concurrent tasks in one run
MaxCalls == 3
\* calls of the bus modules (publish, start_consumer, stop) in one run
MaxApi == 3
\* messages delivered on the subscribed channels in one run
MaxFeed == 2
\* the window size of _update_latest_messages (200 in the source), scaled down
Window == 2

(***************************************************************************)
(* Program constants.                                                      *)
(***************************************************************************)
LATEST_CACHE_TTL == 15
READMODEL_CACHE_TTL == 20

(***************************************************************************)
(* Small input sets.                                                       *)
(***************************************************************************)
\* service instances (processes), each with its own TTLCache
Instances == {"A", "B"}
\* the instance whose cache the TTLCache scenario (SpecCache) drives
CacheInstance == "B"
\* the instance the clients' requests reach; the other one runs its subscription loop
Servers == {"A"}
\* cache keys of the TTLCache scenario, as sequences of characters
CacheKeys == { <<"a", ":", "1">>, <<"a", ":", "2">>, <<"b", ":", "1">> }
\* prefixes handed to delete_prefix / carried by invalidation events
CachePrefixes == { <<>>, <<"a", ":">>, <<"b", ":">>, <<"a", ":", "1">> }
\* cached values of the TTLCache scenario
CacheValues == {"x", "y"}
\* the (key, value) pairs handed to set: one key is overwritten with another
\* value, the other keys always hold the same value
CacheSets == { <<k, v>> \in CacheKeys \X CacheValues : k = <<"a", ":", "1">> \/ v = "x" }
\* ttl_seconds arguments of set (negative ones are clamped by the code)
Ttls == {-1, 0, 1}
\* the tasks (in-flight requests) that call one TTLCache concurrently, and their arguments
Tasks == {"t1", "t2"}
LockKeys == { <<"a", ":", "1">>, <<"a", ":", "2">> }
LockPrefixes == { <<"a", ":">>, <<"a", ":", "1">> }
LockTtls == {0, 1}
\* what arrives on a subscription: an event (a JSON object), a payload that is not
\* JSON, a JSON value that is not an object (event.get raises in the handler), an
\* event whose handling never returns (an await that never completes), and a
\* pub/sub control message (type "subscribe")
FeedKinds == {"event", "garbled", "nondict", "slow", "control"}
\* events handed to publish: one json.dumps accepts, one it rejects
PublishEvents == {"event", "unserializable"}
\* the fields of Settings
SettingsFields == {"mongo_uri", "mongo_db", "mongo_alt_uri", "mongo_direct", "cors_origin",
                   "port", "vapid_public_key", "vapid_private_key", "vapid_subject",
                   "redis_url", "redis_pubsub_enabled", "redis_pubsub_prefix",
                   "atlas_search_enabled", "atlas_search_index",
                   "atlas_autocomplete_enabled"}
\* topics an event may arrive on, as <<prefix, ".", name>>
Topics == { <<"tm", ".", "cache">>, <<"tm", ".", "messages">> }
\* the "type" field of an event as sent (any case)
EventTypes == {"invalidate", "INVALIDATE", "message_created"}

\* the one conversation thread of the model (group_id)
Gid == "g"
\* HTTP connections; each has at most one request in flight, and the second
\* is used only for a request that runs while one of the first is in flight
Clients == {"c1", "c2"}
\* c1 carries the creates and the reads; both carry edits, deletes and reactions
Primary == {"c1"}
\* the user who writes and reacts
Users == {"u1"}
\* text of a new message, and newText of an edit
NewText == "hello"
EditedText == "edited"
\* emoji of a reaction request
Emojis == {"x"}
\* replyToMessageId of a create payload: 0 is no reply
ReplyTargets == {0, 1}
\* count of a latest request after clamping, n = max(1, min(count or 100, 500)),
\* scaled like Window; the window refresh fills the sizes in RefreshSizes (50, 100)
Counts == {2}
RefreshSizes == {1, 2}

VARIABLES
    now,       \* time.time(), in seconds
    cache,     \* cache[i]: TTLCache._store of instance i, key -> [value, exp]
    obs,       \* the last TTLCache call or bus event handled: its arguments and result
    lastSet,   \* history: one set(k, v, ttl) call, kept while its entry is not overwritten or deleted
    messages,  \* primary store, collection of group messages: messageId -> document
    window,    \* read_messages_latest document of the thread: its items (<<>>: no document)
    redisCache,\* shared Redis cache: key -> [value, exp]
    bus,       \* bus[i]: events published on Redis pub/sub, not yet handled by instance i
    cons,      \* cons[i]: the subscription loop of instance i and the handler it is running
    req,       \* req[c]: the request of client c in flight
    resp,      \* the response sent last
    nextId,    \* messageIds (uuid4) and createdAt values handed out so far, plus one
    nWrites,   \* edit, delete and reaction requests started
    nReads,    \* latest requests started
    hist,      \* history of the run, for the claims
    lockHolder,\* TTLCache._lock of the cache instance: None or <<the call holding it>>
    calls,     \* calls[t]: the TTLCache call of task t and how far it has come
    seqStore,  \* history: the store after the calls so far, each run whole at its acquire
    nCalls,    \* TTLCache calls started by the tasks
    settings,  \* redis_bus._settings: redis_pubsub_enabled and whether redis_url is set
    redisUp,   \* whether the Redis server answers
    client,    \* redis_bus._client is not None
    connOpen,  \* the connection of the client is open
    listener_task, \* redis_bus._listener_task: None or <<the index of the loop in loops>>
    loops,     \* the subscription loops (_run tasks) created so far
    feed,      \* the messages delivered on the subscribed channels so far, in order
    handled,   \* history: <<l, i>> when loop l has called the handler for feed[i]
    api,       \* the call of a bus function in progress, or the last one and its outcome
    nApi,      \* calls of bus functions so far
    sent,      \* events handed to Redis by publish
    collection, \* the reply scenario's message collection: documents of every thread
    resolution, \* the last call of _resolve_reply_ref: its arguments, lookups and result
    computedAt, \* history: computedAt[n], when the latest list of count n was last computed
    profile,    \* the dating profile document of one user: primaryPhotoUrl and photos
    photoResp,  \* the last POST /dating/profile/{user_id}/photos: its payload and response
    dmMessages, \* the DM collection: the message documents of one DM thread, by messageId
    dmResp      \* the last response of dm_latest: its count, its list, and whether it was a cache hit

lockVars == <<lockHolder, calls, seqStore, nCalls>>
transportVars == <<settings, redisUp, client, connOpen, listener_task, loops, feed, handled,
                   api, nApi, sent>>
resolverVars == <<collection, resolution>>
datingVars == <<profile, photoResp>>
dmVars == <<dmMessages, dmResp>>
scenarioVars == <<resolverVars, datingVars, dmVars>>
auxVars == <<lockVars, transportVars, scenarioVars, computedAt>>
cacheVars == <<obs, lastSet, auxVars>>
sysVars == <<messages, window, redisCache, bus, cons, req, resp, nextId, nWrites, nReads, hist>>
vars == <<now, cache, obs, lastSet, messages, window, redisCache, bus, cons, req, resp,
          nextId, nWrites, nReads, hist, auxVars>>

(***************************************************************************)
(* Python helpers.                                                         *)
(***************************************************************************)
\* max(0, x)
Max0(x) == IF x > 0 THEN x ELSE 0

\* str.startswith
StartsWith(k, p) == Len(p) <= Len(k) /\ SubSeq(k, 1, Len(p)) = p

\* str.endswith, on a topic <<prefix, ".", name>> and a name
EndsWith(topic, name) == Len(topic) > 0 /\ topic[Len(topic)] = name

\* str.lower on the event types of the model
Lower(s) == IF s = "INVALIDATE" THEN "invalidate" ELSE s

\* a dict without the keys in ks
Without(d, ks) == [k \in DOMAIN d \ ks |-> d[k]]

\* a dict with d[k] = v
With(d, k, v) == [x \in DOMAIN d \cup {k} |-> IF x = k THEN v ELSE d[x]]

\* the empty dict
EmptyDict == [k \in {} |-> 0]

\* Optional results: <<>> is None, <<v>> is the value v
None == <<>>
Some(v) == <<v>>

(***************************************************************************)
(* TTLCache (app/cache.py).  The lock is an asyncio.Lock that is never     *)
(* held across an await, so each method runs as one step.                  *)
(***************************************************************************)
\* mutant of TTLCache_get: an entry counts as expired from now == exp on
TTLCache_get_expired_at_instant(store, key, t) ==
    IF key \notin DOMAIN store
    THEN [store |-> store, value |-> None]
    ELSE IF store[key].exp # 0 /\ store[key].exp <= t
         THEN [store |-> Without(store, {key}), value |-> None]
         ELSE [store |-> store, value |-> Some(store[key].value)]

\* mutant of TTLCache_get: the comparison of exp with now is inverted
TTLCache_get_inverted(store, key, t) ==
    IF key \notin DOMAIN store
    THEN [store |-> store, value |-> None]
    ELSE IF store[key].exp # 0 /\ store[key].exp > t
         THEN [store |-> Without(store, {key}), value |-> None]
         ELSE [store |-> store, value |-> Some(store[key].value)]

\* TTLCache.get: [store |-> the store afterwards, value |-> the result]
TTLCache_get(store, key, t) ==
    IF key \notin DOMAIN store
    THEN [store |-> store, value |-> None]
    ELSE IF store[key].exp # 0 /\ store[key].exp < t
         THEN [store |-> Without(store, {key}), value |-> None]
         ELSE [store |-> store, value |-> Some(store[key].value)]

\* mutant of TTLCache_set: the ttl is not clamped
TTLCache_set_unclamped(store, key, value, ttl, t) ==
    With(store, key, [value |-> value, exp |-> t + ttl])

\* TTLCache.set: the store afterwards
TTLCache_set(store, key, value, ttl, t) ==
    With(store, key, [value |-> value, exp |-> t + Max0(ttl)])

\* mutant of TTLCache_delete_prefix: only the key equal to the prefix is removed
TTLCache_delete_prefix_exact(store, prefix) ==
    LET keys == {k \in DOMAIN store : k = prefix}
    IN  [store |-> Without(store, keys), count |-> Cardinality(keys)]

\* mutant of TTLCache_delete_prefix: the count returned is that of the keys left
TTLCache_delete_prefix_counts_left(store, prefix) ==
    LET keys == {k \in DOMAIN store : StartsWith(k, prefix)}
    IN  [store |-> Without(store, keys), count |-> Cardinality(DOMAIN store \ keys)]

\* TTLCache.delete_prefix: [store |-> the store afterwards, count |-> keys removed]
TTLCache_delete_prefix(store, prefix) ==
    LET keys == {k \in DOMAIN store : StartsWith(k, prefix)}
    IN  [store |-> Without(store, keys), count |-> Cardinality(keys)]

(***************************************************************************)
(* cache_bus.handle_cache_event: the store afterwards.                     *)
(***************************************************************************)
\* mutant of handle_cache_event: one matching entry is evicted per event
handle_cache_event_one_entry(store, topic, type, pattern) ==
    LET keys == {k \in DOMAIN store : StartsWith(k, pattern)} IN
    IF ~EndsWith(topic, "cache") \/ Lower(type) # "invalidate" \/ pattern = <<>> \/ keys = {}
    THEN store
    ELSE Without(store, {CHOOSE k \in keys : TRUE})

\* mutant of handle_cache_event: the type of the event is not looked at
handle_cache_event_any_type(store, topic, type, pattern) ==
    IF EndsWith(topic, "cache") /\ pattern # <<>>
    THEN TTLCache_delete_prefix(store, pattern).store
    ELSE store

handle_cache_event(store, topic, type, pattern) ==
    IF ~EndsWith(topic, "cache") THEN store
    ELSE IF Lower(type) = "invalidate" /\ pattern # <<>>
         THEN TTLCache_delete_prefix(store, pattern).store
         ELSE store

(***************************************************************************)
(* cache_bus.publish_invalidate and the transports.                        *)
(***************************************************************************)
\* redis_bus.publish: Redis pub/sub hands the event to every subscribed
\* connection, the publishing instance's own consumer included
redis_publish(b, event) == [i \in Instances |-> Append(b[i], event)]

\* cache_bus.publish_invalidate: the bus afterwards.  The event is handed to
\* kafka.publish, not to redis_bus.publish; kafka.publish reads
\* _settings.kafka_enabled, which Settings (config.py) does not declare, the
\* AttributeError is swallowed here, and nothing reaches the Redis channels the
\* consumers started in main.startup listen on.
publish_invalidate(b, pattern) == b

(***************************************************************************)
(* redis_cache: the shared cache.  Redis drops a key ttl seconds after SET; *)
(* values go through json.dumps / json.loads, which gives back the lists of *)
(* documents of the model as they were.                                    *)
(***************************************************************************)
redis_cache_get(store, key, t) ==
    IF key \in DOMAIN store /\ t < store[key].exp THEN Some(store[key].value) ELSE None

redis_cache_set(store, key, value, ttl, t) ==
    With(store, key, [value |-> value, exp |-> t + (IF ttl > 1 THEN ttl ELSE 1)])

redis_cache_delete_prefix(store, prefix) ==
    Without(store, {k \in DOMAIN store : StartsWith(k, prefix)})

(***************************************************************************)
(* Cache keys of the message handlers.                                     *)
(***************************************************************************)
LatestPrefix == <<"messages:latest:", Gid, ":">>
LatestKey(n) == <<"messages:latest:", Gid, ":", n>>
PagePrefix == <<"messages:page:", Gid, ":">>
GroupsListPrefix == <<"groups:list:">>

(***************************************************************************)
(* Documents.  A message document keeps the fields the handlers read or    *)
(* write; media stands for the media and audio fields (TRUE: present),     *)
(* timestamp and createdAt are the creation instant, the deletedAt and     *)
(* lastEditedAt stamps are left out.  replyTo is None or <<snapshot>>; in a  *)
(* snapshot messageId 0, username "", text "", timestamp 0, media FALSE    *)
(* stand for a missing (or empty) field.                                   *)
(***************************************************************************)
\* the loose reference create_message builds from replyToMessageId
LooseRef(rid) ==
    IF rid = 0 THEN None
    ELSE Some([messageId |-> rid, username |-> "", text |-> "", timestamp |-> 0,
               media |-> FALSE, deleted |-> FALSE])

\* the snapshots a client sends in payload.replyTo once the thread has a message
ReplyPayloads ==
    [messageId : 0..1, username : Users, text : {"", NewText}, timestamp : 0..1,
     media : {FALSE}, deleted : {FALSE}]

\* find_one by messageId within the thread: None or <<document>>
FindMessage(msgs, mid) == IF mid \in DOMAIN msgs THEN Some(msgs[mid]) ELSE None

\* find_one by timestamp within the thread
FindByTimestamp(msgs, ts) ==
    IF \E m \in DOMAIN msgs : msgs[m].timestamp = ts
    THEN Some(msgs[CHOOSE m \in DOMAIN msgs : msgs[m].timestamp = ts])
    ELSE None

\* _resolve_reply_ref: None or <<snapshot>>
resolve_reply_ref(msgs, ref) ==
    IF ref = None THEN None
    ELSE LET r == ref[1]
             needs_text == r.text = ""
             byId == IF needs_text /\ r.messageId # 0 THEN FindMessage(msgs, r.messageId)
                     ELSE None
             original == IF needs_text /\ byId = None /\ r.timestamp # 0
                         THEN FindByTimestamp(msgs, r.timestamp)
                         ELSE byId
         IN  IF original = None THEN Some(r)
             ELSE LET o == original[1] IN
                  Some([messageId |-> IF r.messageId = 0 THEN o.messageId ELSE r.messageId,
                        username  |-> IF r.username = "" THEN o.username ELSE r.username,
                        text      |-> o.text,
                        timestamp |-> IF r.timestamp = 0 THEN o.timestamp ELSE r.timestamp,
                        media     |-> r.media \/ o.media,
                        deleted   |-> r.deleted \/ o.deleted])

\* the document create_message inserts
NewDoc(mid, user, reply) ==
    [messageId |-> mid, timestamp |-> mid, createdAt |-> mid, username |-> user,
     text |-> NewText, media |-> TRUE, replyTo |-> reply,
     edited |-> FALSE, lastEditedAt |-> 0, edits |-> <<>>, deleted |-> FALSE,
     deletedAt |-> 0, reactions |-> EmptyDict]

(***************************************************************************)
(* The window document read_messages_latest.                               *)
(***************************************************************************)
\* items[-n:]
LastItems(items, n) ==
    IF Len(items) > n THEN SubSeq(items, Len(items) - n + 1, Len(items)) ELSE items

\* mutant of window_push: $slice keeps the first n items
window_push_keep_first(items, item, n) ==
    IF Len(items) >= n THEN SubSeq(items, 1, n) ELSE Append(items, item)

\* mutant of window_push: no $slice
window_push_no_slice(items, item, n) == Append(items, item)

\* update_one with $push {$each: [item], $slice: -n}, upsert
window_push(items, item, n) == LastItems(Append(items, item), n)

(***************************************************************************)
(* Initial state.                                                          *)
(***************************************************************************)
NoObs == [op |-> "none", key |-> <<>>, value |-> None, ttl |-> 0, count |-> 0,
          topic |-> <<>>, type |-> ""]

\* no request in flight
IdleReq == [op |-> "none", pc |-> "idle", inst |-> "A", mid |-> 0, n |-> 0, doc |-> None,
            items |-> <<>>, modified |-> FALSE, deletedBefore |-> {}, expect |-> None,
            inm |-> None]

\* the response sent last: none yet.  Of a latest response the model keeps the
\* count asked for, the ETag header and, as history, the If-None-Match header of
\* the request
NoResp == [op |-> "none", inst |-> "A", status |-> 0, body |-> <<>>,
           deletedBefore |-> {}, expect |-> None, n |-> 0, etag |-> None, inm |-> None]

\* the subscription loop waits for the next message
IdleCons == [pc |-> "idle", mid |-> 0, item |-> None]

\* a task that is not in a TTLCache call
IdleCall == [pc |-> "idle", op |-> "none", key |-> <<>>, value |-> "", exp |-> 0, t0 |-> 0,
             item |-> None, keys |-> {}, result |-> None, expected |-> None]

\* history variables:
\*   deleteReturned[i]  the messages whose delete_message has returned on instance i
\*   lastWrite          None, or <<the write that returned last>>: it returned with no
\*                      other request in flight, and no request has started since
\*   pendingInv         the prefixes a handler on instance A passed to publish_invalidate and
\*                      instance B has not applied delete_prefix to since
\*   appended           the messageIds appended to the window, in order
\*   patchFailed        the messages whose delete_message had its window patch fail
\* the settings before the module is imported
NoSettings == [loaded |-> FALSE, redis_pubsub_enabled |-> FALSE, redis_url |-> FALSE]
\* no call of a bus function yet; event: the event handed to publish, and for
\* start_consumer "task_found" when it returned because of the task
IdleApi == [op |-> "none", pc |-> "idle", event |-> "none"]

NoHist == [deleteReturned |-> [i \in Instances |-> {}], lastWrite |-> None,
           pendingInv |-> {}, appended |-> <<>>, patchFailed |-> {}]

Init ==
    /\ now = 1
    /\ cache = [i \in Instances |-> EmptyDict]
    /\ obs = NoObs
    /\ lastSet = EmptyDict
    /\ messages = EmptyDict
    /\ window = <<>>
    /\ redisCache = EmptyDict
    /\ bus = [i \in Instances |-> <<>>]
    /\ cons = [i \in Instances |-> IdleCons]
    /\ req = [c \in Clients |-> IdleReq]
    /\ resp = NoResp
    /\ nextId = 1
    /\ nWrites = 0
    /\ nReads = 0
    /\ hist = NoHist
    /\ lockHolder = None
    /\ calls = [t \in Tasks |-> IdleCall]
    /\ seqStore = EmptyDict
    /\ nCalls = 0
    /\ settings = NoSettings
    /\ redisUp = TRUE
    /\ client = FALSE
    /\ connOpen = FALSE
    /\ listener_task = None
    /\ loops = <<>>
    /\ feed = <<>>
    /\ handled = {}
    /\ api = IdleApi
    /\ nApi = 0
    /\ sent = 0
    /\ collection = {}
    /\ resolution = None
    /\ computedAt = [n \in 1..MaxMsgs |-> 1]
    /\ profile = None
    /\ photoResp = [kind |-> "none", payload |-> <<>>, status |-> 0,
                    primaryPhotoUrl |-> None, photos |-> <<>>]
    /\ dmMessages = EmptyDict
    /\ dmResp = [n |-> 0, body |-> <<>>, hit |-> FALSE]

(***************************************************************************)
(* The TTLCache scenario: calls on one instance's cache, bus events        *)
(* handled by it, and the clock.                                           *)
(***************************************************************************)
Tick ==
    /\ now < MaxTime
    /\ now' = now + 1
    /\ UNCHANGED <<cache, obs, lastSet, sysVars, auxVars>>

CacheGet(i, k) ==
    LET r == TTLCache_get(cache[i], k, now) IN
    /\ cache' = [cache EXCEPT ![i] = r.store]
    /\ obs' = [NoObs EXCEPT !.op = "get", !.key = k, !.value = r.value]
    /\ UNCHANGED <<now, lastSet, sysVars, auxVars>>

CacheSet(i, k, v, ttl) ==
    /\ cache' = [cache EXCEPT ![i] = TTLCache_set(cache[i], k, v, ttl, now)]
    /\ obs' = [NoObs EXCEPT !.op = "set", !.key = k, !.value = Some(v), !.ttl = ttl]
    /\ lastSet' \in {With(EmptyDict, k, [t |-> now, ttl |-> ttl, value |-> v])}
                    \cup {Without(lastSet, {k})}
    /\ UNCHANGED <<now, sysVars, auxVars>>

CacheDeletePrefix(i, p) ==
    LET r == TTLCache_delete_prefix(cache[i], p) IN
    /\ cache' = [cache EXCEPT ![i] = r.store]
    /\ obs' = [NoObs EXCEPT !.op = "delete_prefix", !.key = p, !.count = r.count]
    /\ lastSet' = Without(lastSet, {k \in DOMAIN lastSet : StartsWith(k, p)})
    /\ UNCHANGED <<now, sysVars, auxVars>>

\* the consumer hands an event of the bus to handle_cache_event
CacheEvent(i, topic, type, p) ==
    LET after == handle_cache_event(cache[i], topic, type, p) IN
    /\ cache' = [cache EXCEPT ![i] = after]
    /\ obs' = [NoObs EXCEPT !.op = "event", !.key = p, !.topic = topic, !.type = type,
                            !.count = Cardinality(DOMAIN cache[i] \ DOMAIN after)]
    /\ lastSet' = Without(lastSet, DOMAIN cache[i] \ DOMAIN after)
    /\ UNCHANGED <<now, sysVars, auxVars>>

(***************************************************************************)
(* The message handlers and the subscription loops.  A handler runs from   *)
(* one await on the primary store, Redis or the bus to the next: each      *)
(* action below is the code between two such awaits together with the      *)
(* store or network operation that ends it.  TTLCache calls never suspend. *)
(***************************************************************************)
\* the channel of a topic: _channel, with the default prefix "tm"
Channel(name) == <<"tm", ".", name>>

\* history: a handler on instance i passed the prefixes ps to publish_invalidate
Published(h, i, ps) == IF i = "A" THEN [h EXCEPT !.pendingInv = @ \cup ps] ELSE h

\* history: instance i applied delete_prefix to the prefixes ps
Applied(h, i, ps) == IF i = "B" THEN [h EXCEPT !.pendingInv = @ \ ps] ELSE h

\* the requests started so far
Requests == (nextId - 1) + nWrites + nReads

\* connection c is free for a new request
Free(c) ==
    /\ req[c].pc = "idle"
    /\ c = "c2" => req["c1"].pc # "idle"
    /\ Requests < MaxRequests

\* no request is in flight on a connection other than c
Alone(c) == \A d \in Clients \ {c} : req[d].pc = "idle"

\* client c starts the request r; a latest request in flight is no longer alone
StartReq(c, r) ==
    req' = [d \in Clients |-> IF d = c THEN r ELSE [req[d] EXCEPT !.expect = None]]

\* history: a request started
Started(h) == [h EXCEPT !.lastWrite = None]

\* client c's request is answered at once with an error status
Refuse(c, op, status) ==
    /\ req' = [d \in Clients |-> [req[d] EXCEPT !.expect = None]]
    /\ resp' = [NoResp EXCEPT !.op = op, !.status = status]

\* history: the write w returned on instance i while no other request was in flight
Wrote(h, c, w) == [h EXCEPT !.lastWrite = IF Alone(c) THEN Some(w) ELSE None]

\* client c's request moves on to pc
Goto(c, pc) == req' = [req EXCEPT ![c].pc = pc]

\* client c's request returns; of the response the model keeps the status, and
\* for a latest request the instance and the list returned
Return(c, status, body) ==
    /\ req' = [req EXCEPT ![c] = IdleReq]
    /\ resp' = [op |-> req[c].op,
                inst |-> IF req[c].op = "latest" THEN req[c].inst ELSE "A",
                status |-> status, body |-> body,
                deletedBefore |-> req[c].deletedBefore,
                expect |-> req[c].expect, n |-> 0, etag |-> None, inm |-> None]

\* ---- create_message ----------------------------------------------------
\* mid, the reply snapshot (_resolve_reply_ref) and the document
CreateStart(c, i, rid) ==
    /\ Free(c)
    /\ nextId <= MaxMsgs
    /\ rid < nextId
    /\ \E u \in Users :
         StartReq(c, [IdleReq EXCEPT !.op = "create", !.pc = "c_insert", !.inst = i,
                        !.mid = nextId,
                        !.doc = Some(NewDoc(nextId, u,
                                     resolve_reply_ref(messages, LooseRef(rid))))])
    /\ nextId' = nextId + 1
    /\ hist' = Started(hist)
    /\ UNCHANGED <<now, cache, cacheVars, messages, window, redisCache, bus, cons, resp,
                   nWrites, nReads>>

\* create_message with a snapshot in payload.replyTo: merged_ref is the snapshot
CreateStartSnapshot(c, i, ref) ==
    /\ Free(c)
    /\ nextId <= MaxMsgs
    /\ messages # EmptyDict
    /\ \E u \in Users :
         StartReq(c, [IdleReq EXCEPT !.op = "create", !.pc = "c_insert", !.inst = i,
                        !.mid = nextId,
                        !.doc = Some(NewDoc(nextId, u,
                                     resolve_reply_ref(messages, Some(ref))))])
    /\ nextId' = nextId + 1
    /\ hist' = Started(hist)
    /\ UNCHANGED <<now, cache, cacheVars, messages, window, redisCache, bus, cons, resp,
                   nWrites, nReads>>

\* insert_one
CreateInsert(c) ==
    /\ req[c].pc = "c_insert"
    /\ messages' = With(messages, req[c].mid, req[c].doc[1])
    /\ req' = [req EXCEPT ![c].pc = "c_publish", ![c].doc = None]
    /\ UNCHANGED <<now, cache, cacheVars, window, redisCache, bus, cons, resp, nextId,
                   nWrites, nReads, hist>>

\* redis_publish("messages", {type: "message_created", ...})
CreatePublish(c) ==
    /\ req[c].pc = "c_publish"
    /\ bus' = redis_publish(bus, [topic |-> Channel("messages"), type |-> "message_created",
                                  groupId |-> Gid, messageId |-> req[c].mid,
                                  pattern |-> <<>>])
    /\ Goto(c, "c_invalidate")
    /\ UNCHANGED <<now, cache, cacheVars, messages, window, redisCache, cons, resp, nextId,
                   nWrites, nReads, hist>>

\* local delete_prefix("groups:list:"), publish_invalidate("groups:list:"), and
\* _invalidate_latest_cache up to its delete in the Redis cache
CreateInvalidate(c) ==
    LET i == req[c].inst IN
    /\ req[c].pc = "c_invalidate"
    /\ cache' = [cache EXCEPT ![i] =
                   TTLCache_delete_prefix(
                       TTLCache_delete_prefix(cache[i], GroupsListPrefix).store,
                       LatestPrefix).store]
    /\ bus' = publish_invalidate(bus, GroupsListPrefix)
    /\ redisCache' = redis_cache_delete_prefix(redisCache, LatestPrefix)
    /\ hist' = Published(Applied(hist, i, {GroupsListPrefix, LatestPrefix}),
                         i, {GroupsListPrefix})
    /\ Goto(c, "c_return")
    /\ UNCHANGED <<now, cacheVars, messages, window, cons, resp, nextId, nWrites, nReads>>

\* the rest of _invalidate_latest_cache: publish_invalidate(prefix); the response
CreateReturn(c) ==
    LET i == req[c].inst IN
    /\ req[c].pc = "c_return"
    /\ bus' = publish_invalidate(bus, LatestPrefix)
    /\ hist' = Wrote(Published(hist, i, {LatestPrefix}), c,
                      [inst |-> i, kind |-> "create", mid |-> req[c].mid,
                       reactions |-> EmptyDict])
    /\ Return(c, 200, <<>>)
    /\ UNCHANGED <<now, cache, cacheVars, messages, window, redisCache, cons, nextId,
                   nWrites, nReads>>

\* ---- edit_message ------------------------------------------------------
\* find_one of the message; 404 when there is none
edit_begin(c, i, mid) ==
    /\ Free(c)
    /\ nWrites' = nWrites + 1
    /\ hist' = Started(hist)
    /\ IF FindMessage(messages, mid) = None
       THEN Refuse(c, "edit", 404)
       ELSE /\ StartReq(c, [IdleReq EXCEPT !.op = "edit", !.pc = "e_update", !.inst = i,
                              !.mid = mid, !.doc = FindMessage(messages, mid)])
            /\ UNCHANGED resp
    /\ UNCHANGED <<now, cache, cacheVars, messages, window, redisCache, bus, cons, nextId,
                   nReads>>

\* an edit_message request starts
EditStart(c, i, mid) ==
    /\ nWrites < MaxWrites
    /\ edit_begin(c, i, mid)

\* update_one of the message: text, edited, lastEditedAt (now_iso(); 0 stands for
\* no such field), edits (from the document read before)
EditUpdate(c) ==
    LET mid == req[c].mid  doc == req[c].doc[1] IN
    /\ req[c].pc = "e_update"
    /\ messages' = [messages EXCEPT ![mid] =
                      [@ EXCEPT !.text = EditedText, !.edited = TRUE, !.lastEditedAt = now,
                                !.edits = Append(doc.edits, doc.text)]]
    /\ req' = [req EXCEPT ![c].pc = "e_window", ![c].doc = None]
    /\ UNCHANGED <<now, cache, cacheVars, window, redisCache, bus, cons, resp, nextId,
                   nWrites, nReads, hist>>

\* the index of the first item with this messageId, 0 when there is none
FirstIndexOf(items, mid) ==
    IF \E k \in 1..Len(items) : items[k].messageId = mid
    THEN CHOOSE k \in 1..Len(items) :
            /\ items[k].messageId = mid
            /\ \A j \in 1..(k - 1) : items[j].messageId # mid
    ELSE 0

\* mutant of window_patch_edit: the patched item is taken out and appended again
window_patch_edit_reappend(items, mid, t) ==
    LET k == FirstIndexOf(items, mid) IN
    IF k = 0 THEN items
    ELSE Append(SubSeq(items, 1, k - 1) \o SubSeq(items, k + 1, Len(items)),
                [items[k] EXCEPT !.text = EditedText, !.edited = TRUE, !.lastEditedAt = t])

\* update_one {"items.messageId": mid} with $set on items.$: the positional
\* operator patches the first matching item
window_patch_edit(items, mid, t) ==
    LET k == FirstIndexOf(items, mid) IN
    IF k = 0 THEN items
    ELSE [items EXCEPT ![k] = [@ EXCEPT !.text = EditedText, !.edited = TRUE,
                                        !.lastEditedAt = t]]

EditWindow(c) ==
    /\ req[c].pc = "e_window"
    /\ window' = window_patch_edit(window, req[c].mid, now)
    /\ Goto(c, "e_invalidate")
    /\ UNCHANGED <<now, cache, cacheVars, messages, redisCache, bus, cons, resp, nextId,
                   nWrites, nReads, hist>>

\* _invalidate_latest_cache up to its delete in the Redis cache; the handlers of
\* edit, delete and reaction share it
invalidate_latest_local(store) == TTLCache_delete_prefix(store, LatestPrefix).store

EditInvalidate(c) ==
    LET i == req[c].inst IN
    /\ req[c].pc = "e_invalidate"
    /\ cache' = [cache EXCEPT ![i] = invalidate_latest_local(cache[i])]
    /\ redisCache' = redis_cache_delete_prefix(redisCache, LatestPrefix)
    /\ hist' = Applied(hist, i, {LatestPrefix})
    /\ Goto(c, "e_return")
    /\ UNCHANGED <<now, cacheVars, messages, window, bus, cons, resp, nextId, nWrites,
                   nReads>>

\* publish_invalidate(latest); delete_prefix and publish_invalidate for the page
\* and the groups:list prefixes; the response
EditReturn(c) ==
    LET i == req[c].inst IN
    /\ req[c].pc = "e_return"
    /\ cache' = [cache EXCEPT ![i] =
                   TTLCache_delete_prefix(
                       TTLCache_delete_prefix(cache[i], PagePrefix).store,
                       GroupsListPrefix).store]
    /\ bus' = publish_invalidate(publish_invalidate(publish_invalidate(bus,
                  LatestPrefix), PagePrefix), GroupsListPrefix)
    /\ hist' = Wrote(Published(Applied(hist, i, {PagePrefix, GroupsListPrefix}),
                               i, {LatestPrefix, PagePrefix, GroupsListPrefix}), c,
                     [inst |-> i, kind |-> "edit", mid |-> req[c].mid,
                      reactions |-> EmptyDict])
    /\ Return(c, 200, <<>>)
    /\ UNCHANGED <<now, cacheVars, messages, window, redisCache, cons, nextId, nWrites,
                   nReads>>

\* ---- react_message -----------------------------------------------------
\* find_one of the message; 404 when there is none
react_begin(c, i, mid) ==
    /\ Free(c)
    /\ nWrites' = nWrites + 1
    /\ hist' = Started(hist)
    /\ IF FindMessage(messages, mid) = None
       THEN Refuse(c, "react", 404)
       ELSE /\ StartReq(c, [IdleReq EXCEPT !.op = "react", !.pc = "r_update", !.inst = i,
                              !.mid = mid, !.doc = FindMessage(messages, mid)])
            /\ UNCHANGED resp
    /\ UNCHANGED <<now, cache, cacheVars, messages, window, redisCache, bus, cons, nextId,
                   nReads>>

\* a react_message request starts
ReactStart(c, i, mid) ==
    /\ nWrites < MaxWrites
    /\ react_begin(c, i, mid)

\* the reactions map after the toggle of user u with emoji e
toggle_reaction(reactions, u, e) ==
    IF u \in DOMAIN reactions /\ reactions[u] = e
    THEN Without(reactions, {u})
    ELSE With(reactions, u, e)

\* update_one of the message: reactions (from the document read before)
ReactUpdate(c, u, e) ==
    LET mid == req[c].mid  doc == req[c].doc[1] IN
    /\ req[c].pc = "r_update"
    /\ messages' = [messages EXCEPT ![mid] =
                      [@ EXCEPT !.reactions = toggle_reaction(doc.reactions, u, e)]]
    /\ req' = [req EXCEPT ![c].pc = "r_invalidate", ![c].doc = None]
    /\ UNCHANGED <<now, cache, cacheVars, window, redisCache, bus, cons, resp, nextId,
                   nWrites, nReads, hist>>

ReactInvalidate(c) ==
    LET i == req[c].inst IN
    /\ req[c].pc = "r_invalidate"
    /\ cache' = [cache EXCEPT ![i] = invalidate_latest_local(cache[i])]
    /\ redisCache' = redis_cache_delete_prefix(redisCache, LatestPrefix)
    /\ hist' = Applied(hist, i, {LatestPrefix})
    /\ Goto(c, "r_return")
    /\ UNCHANGED <<now, cacheVars, messages, window, bus, cons, resp, nextId, nWrites,
                   nReads>>

\* publish_invalidate(latest); delete_prefix and publish_invalidate for the page
\* prefix; the response
ReactReturn(c) ==
    LET i == req[c].inst  mid == req[c].mid IN
    /\ req[c].pc = "r_return"
    /\ cache' = [cache EXCEPT ![i] = TTLCache_delete_prefix(cache[i], PagePrefix).store]
    /\ bus' = publish_invalidate(publish_invalidate(bus, LatestPrefix), PagePrefix)
    /\ hist' = Wrote(Published(Applied(hist, i, {PagePrefix}),
                               i, {LatestPrefix, PagePrefix}), c,
                     [inst |-> i, kind |-> "react", mid |-> mid,
                      reactions |-> messages[mid].reactions])
    /\ Return(c, 200, <<>>)
    /\ UNCHANGED <<now, cacheVars, messages, window, redisCache, cons, nextId, nWrites,
                   nReads>>

\* ---- delete_message ----------------------------------------------------
\* the reply snapshot of m refers to the message x: by its messageId, or, for a
\* snapshot without an id, by its timestamp and author
RefersTo(m, x) ==
    /\ m.replyTo # None
    /\ \/ m.replyTo[1].messageId = x.messageId
       \/ /\ m.replyTo[1].messageId = 0
          /\ m.replyTo[1].timestamp = x.timestamp
          /\ m.replyTo[1].username = x.username

\* find_one of the message; 404 when there is none
DeleteStart(c, i, mid) ==
    /\ Free(c)
    /\ nWrites < MaxWrites
    /\ nWrites' = nWrites + 1
    /\ hist' = Started(hist)
    /\ IF FindMessage(messages, mid) = None
       THEN Refuse(c, "delete", 404)
       ELSE /\ StartReq(c, [IdleReq EXCEPT !.op = "delete", !.pc = "d_update", !.inst = i,
                              !.mid = mid, !.doc = FindMessage(messages, mid)])
            /\ UNCHANGED resp
    /\ UNCHANGED <<now, cache, cacheVars, messages, window, redisCache, bus, cons, nextId,
                   nReads>>

\* $set deleted, deletedAt (now_iso(); 0 stands for no such field), text "" and
\* $unset media, audio on a message or a window item
MarkDeleted(m) ==
    [m EXCEPT !.deleted = TRUE, !.deletedAt = now, !.text = "", !.media = FALSE]

\* update_one of the message
DeleteUpdate(c) ==
    /\ req[c].pc = "d_update"
    /\ messages' = [messages EXCEPT ![req[c].mid] = MarkDeleted(@)]
    /\ Goto(c, "d_replies")
    /\ UNCHANGED <<now, cache, cacheVars, window, redisCache, bus, cons, resp, nextId,
                   nWrites, nReads, hist>>

\* update_many {"replyTo.messageId": mid}: $set replyTo.deleted and replyTo.text
\* (the snapshot's media stays)
DeleteReplies(c) ==
    LET mid == req[c].mid IN
    /\ req[c].pc = "d_replies"
    /\ messages' = [m \in DOMAIN messages |->
                      IF messages[m].replyTo # None /\ messages[m].replyTo[1].messageId = mid
                      THEN [messages[m] EXCEPT !.replyTo =
                              Some([@[1] EXCEPT !.deleted = TRUE, !.text = ""])]
                      ELSE messages[m]]
    /\ Goto(c, "d_window")
    /\ UNCHANGED <<now, cache, cacheVars, window, redisCache, bus, cons, resp, nextId,
                   nWrites, nReads, hist>>

\* the items with every item of this messageId marked deleted: the arrayFilters
\* update and the manual rewrite compute the same list
window_mark_deleted(items, mid) ==
    [k \in 1..Len(items) |->
        IF items[k].messageId = mid THEN MarkDeleted(items[k]) ELSE items[k]]

\* update_one {"items.messageId": mid} with arrayFilters; modified_count is 0
\* when no item has this messageId
DeleteWindow(c) ==
    LET mid == req[c].mid
        matched == \E k \in 1..Len(window) : window[k].messageId = mid IN
    /\ req[c].pc = "d_window"
    /\ window' = window_mark_deleted(window, mid)
    /\ req' = [req EXCEPT ![c].pc = IF matched THEN "d_rp_find" ELSE "d_fb_find",
                          ![c].modified = matched]
    /\ UNCHANGED <<now, cache, cacheVars, messages, redisCache, bus, cons, resp, nextId,
                   nWrites, nReads, hist>>

\* the fallback after modified_count == 0: find_one of the window
DeleteFallbackFind(c) ==
    LET mid == req[c].mid
        changed == \E k \in 1..Len(window) : window[k].messageId = mid IN
    /\ req[c].pc = "d_fb_find"
    /\ req' = [req EXCEPT ![c].pc = IF changed THEN "d_fb_write" ELSE "d_rp_find",
                          ![c].items = IF changed THEN window_mark_deleted(window, mid)
                                       ELSE <<>>]
    /\ UNCHANGED <<now, cache, cacheVars, messages, window, redisCache, bus, cons, resp,
                   nextId, nWrites, nReads, hist>>

\* the fallback's update_one: $set items to the rewritten list
DeleteFallbackWrite(c) ==
    /\ req[c].pc = "d_fb_write"
    /\ window' = req[c].items
    /\ req' = [req EXCEPT ![c].pc = "d_rp_find", ![c].items = <<>>]
    /\ UNCHANGED <<now, cache, cacheVars, messages, redisCache, bus, cons, resp, nextId,
                   nWrites, nReads, hist>>

\* needs_update of the reply-snapshot pass over the window
reply_needs_update(item, doc) ==
    /\ item.replyTo # None
    /\ \/ item.replyTo[1].messageId = doc.messageId
       \/ /\ doc.timestamp # 0 /\ doc.username # ""
          /\ item.replyTo[1].timestamp = doc.timestamp
          /\ item.replyTo[1].username = doc.username

\* the items with the reply snapshots of the deleted message hidden
window_hide_replies(items, doc) ==
    [k \in 1..Len(items) |->
        IF reply_needs_update(items[k], doc)
        THEN [items[k] EXCEPT !.replyTo =
                Some([@[1] EXCEPT !.deleted = TRUE, !.text = "", !.media = FALSE])]
        ELSE items[k]]

\* the reply-snapshot pass: find_one of the window
DeleteReplyFind(c) ==
    LET doc == req[c].doc[1]
        changed == \E k \in 1..Len(window) : reply_needs_update(window[k], doc) IN
    /\ req[c].pc = "d_rp_find"
    /\ req' = [req EXCEPT ![c].pc = IF changed THEN "d_rp_write" ELSE "d_invalidate",
                          ![c].items = IF changed THEN window_hide_replies(window, doc)
                                       ELSE <<>>,
                          ![c].doc = IF changed THEN @ ELSE None]
    /\ UNCHANGED <<now, cache, cacheVars, messages, window, redisCache, bus, cons, resp,
                   nextId, nWrites, nReads, hist>>

\* the reply-snapshot pass: $set items to the rewritten list
DeleteReplyWrite(c) ==
    /\ req[c].pc = "d_rp_write"
    /\ window' = req[c].items
    /\ req' = [req EXCEPT ![c].pc = "d_invalidate", ![c].items = <<>>, ![c].doc = None]
    /\ UNCHANGED <<now, cache, cacheVars, messages, redisCache, bus, cons, resp, nextId,
                   nWrites, nReads, hist>>

DeleteInvalidate(c) ==
    LET i == req[c].inst IN
    /\ req[c].pc = "d_invalidate"
    /\ cache' = [cache EXCEPT ![i] = invalidate_latest_local(cache[i])]
    /\ redisCache' = redis_cache_delete_prefix(redisCache, LatestPrefix)
    /\ hist' = Applied(hist, i, {LatestPrefix})
    /\ Goto(c, "d_return")
    /\ UNCHANGED <<now, cacheVars, messages, window, bus, cons, resp, nextId, nWrites,
                   nReads>>

\* publish_invalidate(latest); delete_prefix and publish_invalidate for the page
\* and the groups:list prefixes; the response
DeleteReturn(c) ==
    LET i == req[c].inst
        h == Wrote(Published(Applied(hist, i, {PagePrefix, GroupsListPrefix}),
                             i, {LatestPrefix, PagePrefix, GroupsListPrefix}), c,
                   [inst |-> i, kind |-> "delete", mid |-> req[c].mid,
                    reactions |-> EmptyDict]) IN
    /\ req[c].pc = "d_return"
    /\ cache' = [cache EXCEPT ![i] =
                   TTLCache_delete_prefix(
                       TTLCache_delete_prefix(cache[i], PagePrefix).store,
                       GroupsListPrefix).store]
    /\ bus' = publish_invalidate(publish_invalidate(publish_invalidate(bus,
                  LatestPrefix), PagePrefix), GroupsListPrefix)
    /\ hist' = [h EXCEPT !.deleteReturned[i] = @ \cup {req[c].mid}]
    /\ Return(c, 200, <<>>)
    /\ UNCHANGED <<now, cacheVars, messages, window, redisCache, cons, nextId, nWrites,
                   nReads>>

\* ---- get_latest_messages ------------------------------------------------
RECURSIVE SortByCreatedAt(_, _)
\* the documents with the ids given, createdAt ascending
SortByCreatedAt(msgs, ids) ==
    IF ids = {} THEN <<>>
    ELSE LET m == CHOOSE x \in ids : \A y \in ids : msgs[x].createdAt <= msgs[y].createdAt
         IN  <<msgs[m]>> \o SortByCreatedAt(msgs, ids \ {m})

\* mutant of latest_from_primary: sort("createdAt", 1), the n oldest
latest_from_primary_oldest(msgs, n) ==
    LET all == SortByCreatedAt(msgs, DOMAIN msgs) IN
    IF Len(all) > n THEN SubSeq(all, 1, n) ELSE all

\* find(scope).sort("createdAt", -1).limit(n), reversed
latest_from_primary(msgs, n) == LastItems(SortByCreatedAt(msgs, DOMAIN msgs), n)

\* the enrichment loop: a blank reply snapshot is resolved against the primary store
enrich_replies(items, msgs) ==
    [k \in 1..Len(items) |->
        IF items[k].replyTo # None /\ items[k].replyTo[1].text = ""
        THEN [items[k] EXCEPT !.replyTo = resolve_reply_ref(msgs, items[k].replyTo)]
        ELSE items[k]]

\* history: what a latest request starting on instance i with nothing else in
\* flight is expected to reflect
ExpectedBy(c, i) ==
    IF Alone(c) /\ hist.lastWrite # None /\ hist.lastWrite[1].inst = i
    THEN hist.lastWrite ELSE None

\* weak_etag of the payload serialised with sorted keys: W/"<md5 digest>"; the
\* digest is taken as distinct for distinct payloads
weak_etag(payload) == <<"W/", payload>>

\* mutant of conditional_response: If-None-Match is ignored
conditional_response_always_full(payload, inm) ==
    [status |-> 200, body |-> payload, etag |-> Some(weak_etag(payload))]

\* the ETag header and `if inm and inm == tag`: 304 with [] or the payload
conditional_response(payload, inm) ==
    LET tag == weak_etag(payload) IN
    IF inm # None /\ inm[1] = tag
    THEN [status |-> 304, body |-> <<>>, etag |-> Some(tag)]
    ELSE [status |-> 200, body |-> payload, etag |-> Some(tag)]

\* the response of a latest request with this payload
LatestResponse(q, payload) ==
    LET r == conditional_response(payload, q.inm) IN
    [op |-> "latest", inst |-> q.inst, status |-> r.status, body |-> r.body,
     deletedBefore |-> q.deletedBefore, expect |-> q.expect,
     n |-> q.n, etag |-> r.etag, inm |-> q.inm]

\* client c's latest request returns
ReturnLatest(c, payload) ==
    /\ req' = [req EXCEPT ![c] = IdleReq]
    /\ resp' = LatestResponse(req[c], payload)

\* local_cache.get; on a hit the response, on a miss redis_cache_get
get_latest_begin(c, i, n, inm) ==
    LET r == TTLCache_get(cache[i], LatestKey(n), now)
        q == [IdleReq EXCEPT !.op = "latest", !.inst = i, !.n = n, !.inm = inm,
                             !.deletedBefore = hist.deleteReturned[i],
                             !.expect = ExpectedBy(c, i)]
    IN
    /\ Free(c)
    /\ nReads' = nReads + 1
    /\ hist' = Started(hist)
    /\ cache' = [cache EXCEPT ![i] = r.store]
    /\ IF r.value # None
       THEN /\ req' = [d \in Clients |-> [req[d] EXCEPT !.expect = None]]
            /\ resp' = LatestResponse(q, r.value[1])
       ELSE /\ StartReq(c, [q EXCEPT !.pc = "g_redis",
                                     !.doc = redis_cache_get(redisCache, LatestKey(n), now)])
            /\ UNCHANGED resp
    /\ UNCHANGED <<now, cacheVars, messages, window, redisCache, bus, cons, nextId, nWrites>>

\* a latest request without If-None-Match
GetStart(c, i, n) ==
    /\ nReads < MaxReads
    /\ get_latest_begin(c, i, n, None)

\* the tags a client sends in If-None-Match: the ETag of the last response, or
\* that of the empty list
TagsHeld == {weak_etag(<<>>)} \cup (IF resp.etag # None THEN {resp.etag[1]} ELSE {})

\* a latest request with If-None-Match
GetStartIfNoneMatch(c, i, n) ==
    /\ nReads < MaxReads
    /\ \E tag \in TagsHeld : get_latest_begin(c, i, n, Some(tag))

\* after redis_cache_get: on a hit local_cache.set and the response; on a miss
\* find_one of the window document with $slice: -n
GetRedis(c) ==
    LET i == req[c].inst  n == req[c].n IN
    /\ req[c].pc = "g_redis"
    /\ IF req[c].doc # None
       THEN /\ cache' = [cache EXCEPT ![i] =
                           TTLCache_set(cache[i], LatestKey(n), req[c].doc[1],
                                        LATEST_CACHE_TTL, now)]
            /\ ReturnLatest(c, req[c].doc[1])
       ELSE /\ req' = [req EXCEPT ![c].pc = "g_window", ![c].items = LastItems(window, n)]
            /\ UNCHANGED <<cache, resp>>
    /\ UNCHANGED <<now, cacheVars, messages, window, redisCache, bus, cons, nextId,
                   nWrites, nReads, hist>>

\* after the window read: with no items the query of the primary store; with
\* items the enrichment loop, whose reads of the primary store are one step
GetWindow(c) ==
    /\ req[c].pc = "g_window"
    /\ IF req[c].items = <<>>
       THEN req' = [req EXCEPT ![c].pc = "g_enrich",
                               ![c].items = latest_from_primary(messages, req[c].n)]
       ELSE req' = [req EXCEPT ![c].pc = "g_store",
                               ![c].items = enrich_replies(req[c].items, messages)]
    /\ UNCHANGED <<now, cache, cacheVars, messages, window, redisCache, bus, cons, resp,
                   nextId, nWrites, nReads, hist>>

\* the enrichment loop over the items of the primary store
GetEnrich(c) ==
    /\ req[c].pc = "g_enrich"
    /\ req' = [req EXCEPT ![c].pc = "g_store",
                          ![c].items = enrich_replies(req[c].items, messages)]
    /\ UNCHANGED <<now, cache, cacheVars, messages, window, redisCache, bus, cons, resp,
                   nextId, nWrites, nReads, hist>>

\* local_cache.set, redis_cache_set and the response
GetStore(c) ==
    LET i == req[c].inst  n == req[c].n  enriched == req[c].items IN
    /\ req[c].pc = "g_store"
    /\ cache' = [cache EXCEPT ![i] =
                   TTLCache_set(cache[i], LatestKey(n), enriched, LATEST_CACHE_TTL, now)]
    /\ redisCache' = redis_cache_set(redisCache, LatestKey(n), enriched,
                                     LATEST_CACHE_TTL, now)
    /\ ReturnLatest(c, enriched)
    /\ computedAt' = [computedAt EXCEPT ![n] = now]
    /\ UNCHANGED <<now, obs, lastSet, lockVars, transportVars, scenarioVars, messages,
                   window, bus, cons, nextId, nWrites, nReads, hist>>

\* ---- the subscription loop of redis_bus.start_consumer, running
\* ---- readmodels.event_stream_handler --------------------------------------
RECURSIVE RefreshSizesOf(_, _, _, _)
\* _update_latest_messages, the refresh loop: local_cache.set for each size
RefreshSizesOf(store, items, sizes, t) ==
    IF sizes = {} THEN store
    ELSE LET n == CHOOSE x \in sizes : TRUE IN
         RefreshSizesOf(TTLCache_set(store, LatestKey(n), LastItems(items, n),
                                     READMODEL_CACHE_TTL, t),
                        items, sizes \ {n}, t)

\* a message arrives: handle_cache_event, then, for a message_created event,
\* _update_latest_messages up to its find_one of the message
ConsumerReceive(i) ==
    /\ cons[i].pc = "idle"
    /\ bus[i] # <<>>
    /\ LET e == Head(bus[i])
           msg == FindMessage(messages, e.messageId)
       IN  /\ bus' = [bus EXCEPT ![i] = Tail(bus[i])]
           /\ cache' = [cache EXCEPT ![i] =
                          handle_cache_event(cache[i], e.topic, e.type, e.pattern)]
           /\ cons' = [cons EXCEPT ![i] =
                         IF /\ EndsWith(e.topic, "messages")
                            /\ Lower(e.type) = "message_created"
                            /\ e.groupId # "" /\ e.messageId # 0
                            /\ msg # None
                         THEN [pc |-> "push", mid |-> e.messageId, item |-> msg]
                         ELSE IdleCons]
           /\ hist' = IF /\ EndsWith(e.topic, "cache") /\ Lower(e.type) = "invalidate"
                         /\ e.pattern # <<>>
                      THEN Applied(hist, i, {e.pattern})
                      ELSE hist
    /\ UNCHANGED <<now, cacheVars, messages, window, redisCache, req, resp, nextId,
                   nWrites, nReads>>

\* _update_latest_messages: the $push / $slice update of the window document
ConsumerPush(i) ==
    /\ cons[i].pc = "push"
    /\ window' = window_push(window, cons[i].item[1], Window)
    /\ cons' = [cons EXCEPT ![i].pc = "refresh"]
    /\ hist' = [hist EXCEPT !.appended = Append(@, cons[i].mid)]
    /\ UNCHANGED <<now, cache, cacheVars, messages, redisCache, bus, req, resp, nextId,
                   nWrites, nReads>>

\* _update_latest_messages: find_one of the window document and the refresh of
\* the size-keyed entries; then event_stream_handler's two delete_prefix and
\* two publish_invalidate
ConsumerRefresh(i) ==
    /\ cons[i].pc = "refresh"
    /\ cache' = [cache EXCEPT ![i] =
                   TTLCache_delete_prefix(
                       TTLCache_delete_prefix(
                           RefreshSizesOf(cache[i], window, RefreshSizes, now),
                           LatestPrefix).store,
                       PagePrefix).store]
    /\ bus' = publish_invalidate(publish_invalidate(bus, LatestPrefix), PagePrefix)
    /\ cons' = [cons EXCEPT ![i] = IdleCons]
    /\ hist' = Applied(hist, i, {LatestPrefix, PagePrefix})
    /\ UNCHANGED <<now, cacheVars, messages, window, redisCache, req, resp, nextId,
                   nWrites, nReads>>

(***************************************************************************)
(* The lock scenario: concurrent tasks call get, set and delete_prefix of  *)
(* one TTLCache.  Each statement of a method is a step of its own, and the *)
(* steps of different tasks interleave in every way the lock allows.       *)
(***************************************************************************)
\* mutant of lock_can_acquire: the lock is taken whether or not it is held
lock_acquire_unguarded(holder) == TRUE

\* asyncio.Lock.acquire (async with self._lock) goes on when the lock is not held
lock_can_acquire(holder) == holder = None

\* the store of the cache the tasks call
LockedStore == cache[CacheInstance]

\* the positions of a call inside the lock-protected region
InRegion == {"lookup", "expire", "store", "scan", "pop", "release"}

\* task t can start a call
CanCall(t) == calls[t].pc \in {"idle", "returned"} /\ nCalls < MaxCalls

\* get: now = time.time(), then the wait for the lock
CallGet(t, k) ==
    /\ CanCall(t)
    /\ calls' = [calls EXCEPT ![t] =
                   [IdleCall EXCEPT !.pc = "acquire", !.op = "get", !.key = k, !.t0 = now]]
    /\ nCalls' = nCalls + 1
    /\ UNCHANGED <<transportVars, scenarioVars, computedAt, now, cache, obs, lastSet, sysVars, lockHolder, seqStore>>

\* set: exp = time.time() + max(0, int(ttl_seconds)), then the wait for the lock
CallSet(t, k, v, ttl) ==
    /\ CanCall(t)
    /\ calls' = [calls EXCEPT ![t] =
                   [IdleCall EXCEPT !.pc = "acquire", !.op = "set", !.key = k, !.value = v,
                                    !.t0 = now, !.exp = now + Max0(ttl)]]
    /\ nCalls' = nCalls + 1
    /\ UNCHANGED <<transportVars, scenarioVars, computedAt, now, cache, obs, lastSet, sysVars, lockHolder, seqStore>>

\* delete_prefix: the wait for the lock
CallDeletePrefix(t, p) ==
    /\ CanCall(t)
    /\ calls' = [calls EXCEPT ![t] =
                   [IdleCall EXCEPT !.pc = "acquire", !.op = "delete_prefix", !.key = p,
                                    !.t0 = now]]
    /\ nCalls' = nCalls + 1
    /\ UNCHANGED <<transportVars, scenarioVars, computedAt, now, cache, obs, lastSet, sysVars, lockHolder, seqStore>>

\* history: the call of task t run whole on the store s:
\* [store |-> the store afterwards, result |-> what the call returns]
RunWhole(s, c) ==
    CASE c.op = "get" ->
           [store |-> TTLCache_get(s, c.key, c.t0).store,
            result |-> TTLCache_get(s, c.key, c.t0).value]
      [] c.op = "set" ->
           [store |-> With(s, c.key, [value |-> c.value, exp |-> c.exp]), result |-> None]
      [] OTHER ->
           [store |-> TTLCache_delete_prefix(s, c.key).store,
            result |-> Some(TTLCache_delete_prefix(s, c.key).count)]

\* async with self._lock: the lock is taken
LockAcquire(t) ==
    /\ calls[t].pc = "acquire"
    /\ lock_can_acquire(lockHolder)
    /\ lockHolder' = Some(t)
    /\ seqStore' = RunWhole(seqStore, calls[t]).store
    /\ calls' = [calls EXCEPT ![t].pc = CASE calls[t].op = "get" -> "lookup"
                                          [] calls[t].op = "set" -> "store"
                                          [] OTHER -> "scan",
                              ![t].expected = RunWhole(seqStore, calls[t]).result]
    /\ UNCHANGED <<transportVars, scenarioVars, computedAt, now, cache, obs, lastSet, sysVars, nCalls>>

\* get: item = self._store.get(key); return None when there is none
GetLookup(t) ==
    /\ calls[t].pc = "lookup"
    /\ IF calls[t].key \in DOMAIN LockedStore
       THEN calls' = [calls EXCEPT ![t].pc = "expire",
                                   ![t].item = Some(LockedStore[calls[t].key])]
       ELSE calls' = [calls EXCEPT ![t].pc = "release", ![t].result = None]
    /\ UNCHANGED <<transportVars, scenarioVars, computedAt, now, cache, obs, lastSet, sysVars, lockHolder, seqStore, nCalls>>

\* get: if exp and exp < now: pop and return None; else return value
GetExpire(t) ==
    LET item == calls[t].item[1]
        expired == item.exp # 0 /\ item.exp < calls[t].t0 IN
    /\ calls[t].pc = "expire"
    /\ cache' = IF expired
                THEN [cache EXCEPT ![CacheInstance] = Without(@, {calls[t].key})]
                ELSE cache
    /\ calls' = [calls EXCEPT ![t].pc = "release",
                              ![t].result = IF expired THEN None ELSE Some(item.value)]
    /\ UNCHANGED <<transportVars, scenarioVars, computedAt, now, obs, lastSet, sysVars, lockHolder, seqStore, nCalls>>

\* set: self._store[key] = (value, exp)
SetStore(t) ==
    /\ calls[t].pc = "store"
    /\ cache' = [cache EXCEPT ![CacheInstance] =
                   With(@, calls[t].key, [value |-> calls[t].value, exp |-> calls[t].exp])]
    /\ calls' = [calls EXCEPT ![t].pc = "release", ![t].result = None]
    /\ UNCHANGED <<transportVars, scenarioVars, computedAt, now, obs, lastSet, sysVars, lockHolder, seqStore, nCalls>>

\* delete_prefix: keys = [k for k in self._store.keys() if k.startswith(prefix)]
DeleteScan(t) ==
    /\ calls[t].pc = "scan"
    /\ calls' = [calls EXCEPT ![t].pc = "pop",
                              ![t].keys = {k \in DOMAIN LockedStore :
                                             StartsWith(k, calls[t].key)}]
    /\ UNCHANGED <<transportVars, scenarioVars, computedAt, now, cache, obs, lastSet, sysVars, lockHolder, seqStore, nCalls>>

\* delete_prefix: the loop of pops, and return len(keys)
DeletePop(t) ==
    /\ calls[t].pc = "pop"
    /\ cache' = [cache EXCEPT ![CacheInstance] = Without(@, calls[t].keys)]
    /\ calls' = [calls EXCEPT ![t].pc = "release",
                              ![t].result = Some(Cardinality(calls[t].keys))]
    /\ UNCHANGED <<transportVars, scenarioVars, computedAt, now, obs, lastSet, sysVars, lockHolder, seqStore, nCalls>>

\* the end of the async with block: the lock is released and the call returns;
\* the caller goes on, to an await on the stores or the network
LockRelease(t) ==
    /\ calls[t].pc = "release"
    /\ lockHolder' = None
    /\ calls' = [calls EXCEPT ![t].pc = "returned"]
    /\ UNCHANGED <<transportVars, scenarioVars, computedAt, now, cache, obs, lastSet, sysVars, seqStore, nCalls>>

NextLock ==
    \/ Tick
    \/ \E t \in Tasks, k \in LockKeys : CallGet(t, k)
    \/ \E t \in Tasks, k \in LockKeys, v \in CacheValues, ttl \in LockTtls :
           CallSet(t, k, v, ttl)
    \/ \E t \in Tasks, p \in LockPrefixes : CallDeletePrefix(t, p)
    \/ \E t \in Tasks : LockAcquire(t)
    \/ \E t \in Tasks : GetLookup(t)
    \/ \E t \in Tasks : GetExpire(t)
    \/ \E t \in Tasks : SetStore(t)
    \/ \E t \in Tasks : DeleteScan(t)
    \/ \E t \in Tasks : DeletePop(t)
    \/ \E t \in Tasks : LockRelease(t)

SpecLock == Init /\ [][NextLock]_vars

(***************************************************************************)
(* The transport scenario: the functions of redis_bus, kafka and cache_bus *)
(* called one at a time (main.py calls start_consumer at startup and stop  *)
(* at shutdown), the subscription loops they create, the Redis server and  *)
(* the messages it delivers.                                               *)
(***************************************************************************)
\* everything outside the transport scenario
otherVars == <<now, cache, obs, lastSet, sysVars, lockVars, scenarioVars, computedAt>>

\* reading _settings.<name>: Settings is a pydantic BaseModel, a name that is
\* not a field raises AttributeError
settings_getattr(name) == IF name \in SettingsFields THEN "value" ELSE "AttributeError"

\* a _run task as create_task leaves it: it has not run yet
NewLoop == [pc |-> "start", sub |-> 0, pos |-> 0, cancel |-> FALSE, why |-> "none",
            pubsub |-> "none"]

LoopIds == 1..Len(loops)

\* the loop l exists: its task has not finished
Live(l) == loops[l].pc # "done"

\* json.loads succeeds on the payload and the handler is called
Decodable(kind) == kind \in {"event", "nondict", "slow"}

\* a call of a bus function can begin: none is in progress
ApiFree == settings.loaded /\ api.pc \in {"idle", "returned", "raised"} /\ nApi < MaxApi

\* the call in progress ends with the outcome pc
ApiEnd(pc) == api' = [api EXCEPT !.pc = pc]

\* _settings = get_settings(): the environment decides the settings once
Configure(enabled, url) ==
    /\ ~settings.loaded
    /\ settings' = [loaded |-> TRUE, redis_pubsub_enabled |-> enabled, redis_url |-> url]
    /\ UNCHANGED <<redisUp, client, connOpen, listener_task, loops, feed, handled, api, nApi,
                   sent, otherVars>>

\* the Redis server goes away or comes back
RedisFlip ==
    /\ settings.loaded
    /\ redisUp' = ~redisUp
    /\ UNCHANGED <<settings, client, connOpen, listener_task, loops, feed, handled, api, nApi,
                   sent, otherVars>>

\* Redis delivers a message on a subscribed channel
Deliver(kind) ==
    /\ settings.loaded
    /\ Len(feed) < MaxFeed
    /\ feed' = Append(feed, kind)
    /\ UNCHANGED <<settings, redisUp, client, connOpen, listener_task, loops, handled, api,
                   nApi, sent, otherVars>>

\* _ensure_client up to its await: "client" when _client is set, "none" when
\* redis_url is empty, "ping" when a new client is made and pinged
ensure_client_path == IF client THEN "client"
                      ELSE IF ~settings.redis_url THEN "none"
                      ELSE "ping"

\* redis_bus.publish up to its first await
PublishCall(ev) ==
    /\ ApiFree
    /\ nApi' = nApi + 1
    /\ api' = [op |-> "publish", event |-> ev,
               pc |-> IF ~settings.redis_pubsub_enabled THEN "returned"
                      ELSE CASE ensure_client_path = "client" -> "send"
                             [] ensure_client_path = "none" -> "returned"
                             [] OTHER -> "ensure_client"]
    /\ UNCHANGED <<settings, redisUp, client, connOpen, listener_task, loops, feed, handled,
                   sent, otherVars>>

\* redis_bus.publish: await client.ping() in _ensure_client has answered or failed
PublishPinged ==
    /\ api.op = "publish" /\ api.pc = "ensure_client"
    /\ IF redisUp
       THEN client' = TRUE /\ connOpen' = TRUE /\ ApiEnd("send")
       ELSE client' = FALSE /\ UNCHANGED connOpen /\ ApiEnd("returned")
    /\ UNCHANGED <<settings, redisUp, listener_task, loops, feed, handled, nApi, sent,
                   otherVars>>

\* redis_bus.publish: json.dumps and await client.publish, any Exception passed over
PublishSend ==
    /\ api.op = "publish" /\ api.pc = "send"
    /\ sent' = IF api.event = "event" /\ redisUp THEN sent + 1 ELSE sent
    /\ ApiEnd("returned")
    /\ UNCHANGED <<settings, redisUp, client, connOpen, listener_task, loops, feed, handled,
                   nApi, otherVars>>

\* kafka.publish: its first statement reads _settings.kafka_enabled
kafka_publish_outcome ==
    IF settings_getattr("kafka_enabled") = "AttributeError" THEN "raised" ELSE "returned"

\* kafka.publish called by itself
KafkaPublish(ev) ==
    /\ ApiFree
    /\ nApi' = nApi + 1
    /\ api' = [op |-> "kafka_publish", event |-> ev, pc |-> kafka_publish_outcome]
    /\ UNCHANGED <<settings, redisUp, client, connOpen, listener_task, loops, feed, handled,
                   sent, otherVars>>

\* cache_bus.publish_invalidate: kafka.publish inside try/except Exception
PublishInvalidate ==
    /\ ApiFree
    /\ nApi' = nApi + 1
    /\ api' = [op |-> "publish_invalidate", event |-> "event",
               pc |-> IF kafka_publish_outcome = "raised" THEN "returned" ELSE "returned"]
    /\ UNCHANGED <<settings, redisUp, client, connOpen, listener_task, loops, feed, handled,
                   sent, otherVars>>

\* mutant of start_consumer_returns_early: the task is not looked at
start_consumer_never_early(task) == FALSE

\* redis_bus.start_consumer: if _listener_task is not None: return
start_consumer_returns_early(task) == task # None

\* redis_bus.start_consumer: _listener_task = asyncio.create_task(_run())
CreateTask ==
    /\ loops' = Append(loops, NewLoop)
    /\ listener_task' = Some(Len(loops) + 1)

\* redis_bus.start_consumer up to its first await
StartConsumerCall ==
    /\ ApiFree
    /\ nApi' = nApi + 1
    /\ IF start_consumer_returns_early(listener_task) \/ ~settings.redis_pubsub_enabled
          \/ ensure_client_path = "none"
       THEN /\ api' = [op |-> "start_consumer", pc |-> "returned",
                       event |-> IF start_consumer_returns_early(listener_task)
                                 THEN "task_found" ELSE "none"]
            /\ UNCHANGED <<loops, listener_task>>
       ELSE IF ensure_client_path = "client"
       THEN /\ api' = [op |-> "start_consumer", event |-> "none", pc |-> "returned"]
            /\ CreateTask
       ELSE /\ api' = [op |-> "start_consumer", event |-> "none", pc |-> "ensure_client"]
            /\ UNCHANGED <<loops, listener_task>>
    /\ UNCHANGED <<settings, redisUp, client, connOpen, feed, handled, sent, otherVars>>

\* redis_bus.start_consumer: await client.ping() in _ensure_client has answered or failed
StartConsumerPinged ==
    /\ api.op = "start_consumer" /\ api.pc = "ensure_client"
    /\ IF redisUp
       THEN client' = TRUE /\ connOpen' = TRUE /\ CreateTask
       ELSE client' = FALSE /\ UNCHANGED <<connOpen, loops, listener_task>>
    /\ ApiEnd("returned")
    /\ UNCHANGED <<settings, redisUp, feed, handled, nApi, sent, otherVars>>

\* kafka.start_consumer: _consumer_task is None, then _settings.kafka_enabled is read
KafkaStartConsumer ==
    /\ ApiFree
    /\ nApi' = nApi + 1
    /\ api' = [op |-> "kafka_start_consumer", event |-> "none",
               pc |-> IF settings_getattr("kafka_enabled") = "AttributeError"
                      THEN "raised" ELSE "returned"]
    /\ UNCHANGED <<settings, redisUp, client, connOpen, listener_task, loops, feed, handled,
                   sent, otherVars>>

\* _run: pubsub = client.pubsub(); await pubsub.subscribe(...); an Exception ends
\* the task through the finally block
RunSubscribe(l) ==
    /\ loops[l].pc = "start" /\ ~loops[l].cancel
    /\ loops' = [loops EXCEPT ![l] =
                   IF redisUp
                   THEN [@ EXCEPT !.pc = "listening", !.sub = Len(feed), !.pos = Len(feed),
                                  !.pubsub = "open"]
                   ELSE [@ EXCEPT !.pc = "done", !.why = "subscribe_error",
                                  !.pubsub = "closed"]]
    /\ UNCHANGED <<settings, redisUp, client, connOpen, listener_task, feed, handled, api,
                   nApi, sent, otherVars>>

\* _run: pubsub.listen() yields the next message; type != "message" and a payload
\* json.loads rejects are skipped, any other payload is passed to the handler
RunReceive(l) ==
    LET i == loops[l].pos + 1 IN
    /\ loops[l].pc = "listening" /\ ~loops[l].cancel
    /\ i <= Len(feed)
    /\ loops' = [loops EXCEPT ![l].pos = i,
                              ![l].pc = IF Decodable(feed[i]) THEN "handling" ELSE "listening"]
    /\ handled' = IF Decodable(feed[i]) THEN handled \cup {<<l, i>>} ELSE handled
    /\ UNCHANGED <<settings, redisUp, client, connOpen, listener_task, feed, api, nApi, sent,
                   otherVars>>

\* mutant of after_handler: an exception of the handler leaves the loop
after_handler_propagates(kind) == IF kind = "nondict" THEN "done" ELSE "listening"

\* _run: await handler(channel, payload) inside try/except Exception: pass
after_handler(kind) == "listening"

\* _run: the handler returns or raises
RunHandlerEnds(l) ==
    /\ loops[l].pc = "handling" /\ ~loops[l].cancel
    /\ feed[loops[l].pos] \in {"event", "nondict"}
    /\ loops' = [loops EXCEPT ![l].pc = after_handler(feed[loops[l].pos]),
                              ![l].pubsub = IF after_handler(feed[loops[l].pos]) = "done"
                                            THEN "closed" ELSE @]
    /\ UNCHANGED <<settings, redisUp, client, connOpen, listener_task, feed, handled, api,
                   nApi, sent, otherVars>>

\* _run: pubsub.listen() raises (the connection is lost): except Exception: pass,
\* then the finally block
RunListenError(l) ==
    /\ loops[l].pc = "listening" /\ ~loops[l].cancel
    /\ ~redisUp
    /\ loops' = [loops EXCEPT ![l].pc = "done", ![l].why = "listen_error",
                              ![l].pubsub = "closed"]
    /\ UNCHANGED <<settings, redisUp, client, connOpen, listener_task, feed, handled, api,
                   nApi, sent, otherVars>>

\* _run: CancelledError is raised at the await the task is suspended in (it is not
\* an Exception), the finally block closes the pubsub; a task cancelled before
\* its first step never runs
RunCancelled(l) ==
    /\ loops[l].cancel /\ Live(l)
    /\ loops' = [loops EXCEPT ![l].pc = "done", ![l].why = "cancelled",
                              ![l].pubsub = IF @ = "open" THEN "closed" ELSE @]
    /\ UNCHANGED <<settings, redisUp, client, connOpen, listener_task, feed, handled, api,
                   nApi, sent, otherVars>>

\* mutant of stop_closes_client: the client is left as it is
stop_keeps_client(c) == c

\* redis_bus.stop: if _client is not None: await _client.close(); _client = None
stop_closes_client(c) == FALSE

\* redis_bus.stop up to await _listener_task; without a task it goes on to the
\* client (the module's _pubsub is never set: _run assigns a local of its own)
StopCall ==
    /\ ApiFree
    /\ nApi' = nApi + 1
    /\ IF listener_task # None
       THEN /\ loops' = [loops EXCEPT ![listener_task[1]].cancel = Live(listener_task[1])]
            /\ api' = [op |-> "stop", event |-> "none", pc |-> "await_task"]
            /\ UNCHANGED <<client, connOpen>>
       ELSE /\ client' = stop_closes_client(client)
            /\ connOpen' = stop_closes_client(connOpen)
            /\ api' = [op |-> "stop", event |-> "none", pc |-> "returned"]
            /\ UNCHANGED loops
    /\ UNCHANGED <<settings, redisUp, listener_task, feed, handled, sent, otherVars>>

\* redis_bus.stop: the task has ended; _listener_task = None, the client is closed
StopFinish ==
    /\ api.op = "stop" /\ api.pc = "await_task"
    /\ ~Live(listener_task[1])
    /\ listener_task' = None
    /\ client' = stop_closes_client(client)
    /\ connOpen' = stop_closes_client(connOpen)
    /\ ApiEnd("returned")
    /\ UNCHANGED <<settings, redisUp, loops, feed, handled, nApi, sent, otherVars>>

\* kafka.stop: _producer and both tasks are None
KafkaStop ==
    /\ ApiFree
    /\ nApi' = nApi + 1
    /\ api' = [op |-> "kafka_stop", event |-> "none", pc |-> "returned"]
    /\ UNCHANGED <<settings, redisUp, client, connOpen, listener_task, loops, feed, handled,
                   sent, otherVars>>

NextBus ==
    \/ \E enabled \in BOOLEAN, url \in BOOLEAN : Configure(enabled, url)
    \/ RedisFlip
    \/ \E kind \in FeedKinds : Deliver(kind)
    \/ \E ev \in PublishEvents : PublishCall(ev)
    \/ PublishPinged
    \/ PublishSend
    \/ \E ev \in PublishEvents : KafkaPublish(ev)
    \/ PublishInvalidate
    \/ StartConsumerCall
    \/ StartConsumerPinged
    \/ KafkaStartConsumer
    \/ \E l \in LoopIds : RunSubscribe(l)
    \/ \E l \in LoopIds : RunReceive(l)
    \/ \E l \in LoopIds : RunHandlerEnds(l)
    \/ \E l \in LoopIds : RunListenError(l)
    \/ \E l \in LoopIds : RunCancelled(l)
    \/ StopCall
    \/ StopFinish
    \/ KafkaStop

SpecBus == Init /\ [][NextBus]_vars

\* a subscription loop that can take a step takes it: the event loop runs every
\* task that is ready
LoopProgress ==
    \E l \in LoopIds : RunSubscribe(l) \/ RunReceive(l) \/ RunHandlerEnds(l) \/ RunCancelled(l)

SpecBusFair == Init /\ [][NextBus]_vars /\ WF_vars(LoopProgress)

NextCache ==
    \/ Tick
    \/ \E k \in CacheKeys : CacheGet(CacheInstance, k)
    \/ \E kv \in CacheSets, ttl \in Ttls :
           CacheSet(CacheInstance, kv[1], kv[2], ttl)
    \/ \E p \in CachePrefixes : CacheDeletePrefix(CacheInstance, p)
    \/ \E topic \in Topics, type \in EventTypes, p \in CachePrefixes :
           CacheEvent(CacheInstance, topic, type, p)

SpecCache == Init /\ [][NextCache]_vars

(***************************************************************************)
(* The append scenario: create_message requests and the subscription loops *)
(* of the instances.                                                       *)
(***************************************************************************)
NextAppend ==
    \/ \E c \in Primary, i \in Servers, rid \in ReplyTargets : CreateStart(c, i, rid)
    \/ \E c \in Clients : CreateInsert(c)
    \/ \E c \in Clients : CreatePublish(c)
    \/ \E c \in Clients : CreateInvalidate(c)
    \/ \E c \in Clients : CreateReturn(c)
    \/ \E i \in Instances : ConsumerReceive(i)
    \/ \E i \in Instances : ConsumerPush(i)
    \/ \E i \in Instances : ConsumerRefresh(i)

SpecAppend == Init /\ [][NextAppend]_vars

(***************************************************************************)
(* The write scenario: every write handler and the subscription loops.     *)
(***************************************************************************)
MessageIds == 1..MaxMsgs

(***************************************************************************)
(* The reply scenario: messages created with a reply snapshot sent by the  *)
(* client, deletions, and the subscription loops.                          *)
(***************************************************************************)
NextReply ==
    \/ NextAppend
    \/ \E c \in Primary, i \in Servers, ref \in ReplyPayloads : CreateStartSnapshot(c, i, ref)
    \/ \E c \in Clients, i \in Servers, mid \in MessageIds : DeleteStart(c, i, mid)
    \/ \E c \in Clients : DeleteUpdate(c)
    \/ \E c \in Clients : DeleteReplies(c)
    \/ \E c \in Clients : DeleteWindow(c)
    \/ \E c \in Clients : DeleteFallbackFind(c)
    \/ \E c \in Clients : DeleteFallbackWrite(c)
    \/ \E c \in Clients : DeleteReplyFind(c)
    \/ \E c \in Clients : DeleteReplyWrite(c)
    \/ \E c \in Clients : DeleteInvalidate(c)
    \/ \E c \in Clients : DeleteReturn(c)

SpecReply == Init /\ [][NextReply]_vars

NextWrites ==
    \/ NextAppend
    \/ \E c \in Clients, i \in Servers, mid \in MessageIds : EditStart(c, i, mid)
    \/ \E c \in Clients : EditUpdate(c)
    \/ \E c \in Clients : EditWindow(c)
    \/ \E c \in Clients : EditInvalidate(c)
    \/ \E c \in Clients : EditReturn(c)
    \/ \E c \in Clients, i \in Servers, mid \in MessageIds : ReactStart(c, i, mid)
    \/ \E c \in Clients, u \in Users, e \in Emojis : ReactUpdate(c, u, e)
    \/ \E c \in Clients : ReactInvalidate(c)
    \/ \E c \in Clients : ReactReturn(c)
    \/ \E c \in Clients, i \in Servers, mid \in MessageIds : DeleteStart(c, i, mid)
    \/ \E c \in Clients : DeleteUpdate(c)
    \/ \E c \in Clients : DeleteReplies(c)
    \/ \E c \in Clients : DeleteWindow(c)
    \/ \E c \in Clients : DeleteFallbackFind(c)
    \/ \E c \in Clients : DeleteFallbackWrite(c)
    \/ \E c \in Clients : DeleteReplyFind(c)
    \/ \E c \in Clients : DeleteReplyWrite(c)
    \/ \E c \in Clients : DeleteInvalidate(c)
    \/ \E c \in Clients : DeleteReturn(c)

SpecWrites == Init /\ [][NextWrites]_vars

\* the steps a started handler and a subscription loop take on their own: the
\* event loop resumes a task whose await has completed
WriteProgress ==
    \/ \E c \in Clients :
          \/ CreateInsert(c) \/ CreatePublish(c) \/ CreateInvalidate(c) \/ CreateReturn(c)
          \/ EditUpdate(c) \/ EditWindow(c) \/ EditInvalidate(c) \/ EditReturn(c)
          \/ (\E u \in Users, e \in Emojis : ReactUpdate(c, u, e))
          \/ ReactInvalidate(c) \/ ReactReturn(c)
          \/ DeleteUpdate(c) \/ DeleteReplies(c) \/ DeleteWindow(c)
          \/ DeleteFallbackFind(c) \/ DeleteFallbackWrite(c)
          \/ DeleteReplyFind(c) \/ DeleteReplyWrite(c)
          \/ DeleteInvalidate(c) \/ DeleteReturn(c)
    \/ \E i \in Instances : ConsumerReceive(i) \/ ConsumerPush(i) \/ ConsumerRefresh(i)

\* the write scenario with every handler and loop running to completion
SpecWritesFair == Init /\ [][NextWrites]_vars /\ WF_vars(WriteProgress)

(***************************************************************************)
(* The whole service: the write handlers, get_latest_messages, the         *)
(* subscription loops and the clock.                                       *)
(***************************************************************************)
Next ==
    \/ NextWrites
    \/ \E c \in Primary, i \in Servers, n \in Counts : GetStart(c, i, n)
    \/ \E c \in Clients : GetRedis(c)
    \/ \E c \in Clients : GetWindow(c)
    \/ \E c \in Clients : GetEnrich(c)
    \/ \E c \in Clients : GetStore(c)

Spec == Init /\ [][Next]_vars

(***************************************************************************)
(* The read scenario: creates, the subscription loops and latest requests  *)
(* of every count.                                                         *)
(***************************************************************************)
ReadCounts == 1..MaxMsgs

NextRead ==
    \/ NextAppend
    \/ \E c \in Primary, i \in Servers, n \in ReadCounts : GetStart(c, i, n)
    \/ \E c \in Primary, i \in Servers, n \in ReadCounts : GetStartIfNoneMatch(c, i, n)
    \/ \E c \in Clients : GetRedis(c)
    \/ \E c \in Clients : GetWindow(c)
    \/ \E c \in Clients : GetEnrich(c)
    \/ \E c \in Clients : GetStore(c)

SpecRead == Init /\ [][NextRead]_vars

(***************************************************************************)
(* The fault scenario: creates, the subscription loops and latest requests *)
(* as in the read scenario, while the primary store may reject an          *)
(* insert_one and rejects every update_one.  No handler catches the        *)
(* exception of its write: the request ends with status 500.               *)
(***************************************************************************)
\* the step a handler would take next if the exception were caught and ignored
AfterWrite(pc) ==
    CASE pc = "c_insert" -> "c_publish"
      [] pc = "e_update" -> "e_window"
      [] pc = "d_update" -> "d_replies"
      [] pc = "r_update" -> "r_invalidate"

\* mutant of primary_write_failed: the exception is swallowed like those of the
\* best-effort blocks after it
primary_write_swallowed(c) ==
    /\ Goto(c, AfterWrite(req[c].pc))
    /\ UNCHANGED resp

\* the awaited write raises outside any try block: the exception leaves the handler
primary_write_failed(c) == Return(c, 500, <<>>)

\* create_message: insert_one raises
CreateInsertFails(c) ==
    /\ req[c].pc = "c_insert"
    /\ primary_write_failed(c)
    /\ UNCHANGED <<now, cache, cacheVars, messages, window, redisCache, bus, cons, nextId,
                   nWrites, nReads, hist>>

\* edit_message: update_one of the message raises
EditUpdateFails(c) ==
    /\ req[c].pc = "e_update"
    /\ primary_write_failed(c)
    /\ UNCHANGED <<now, cache, cacheVars, messages, window, redisCache, bus, cons, nextId,
                   nWrites, nReads, hist>>

\* delete_message: update_one of the message raises
DeleteUpdateFails(c) ==
    /\ req[c].pc = "d_update"
    /\ primary_write_failed(c)
    /\ UNCHANGED <<now, cache, cacheVars, messages, window, redisCache, bus, cons, nextId,
                   nWrites, nReads, hist>>

\* react_message: update_one of the message raises
ReactUpdateFails(c) ==
    /\ req[c].pc = "r_update"
    /\ primary_write_failed(c)
    /\ UNCHANGED <<now, cache, cacheVars, messages, window, redisCache, bus, cons, nextId,
                   nWrites, nReads, hist>>

NextFaults ==
    \/ NextRead
    \/ \E c \in Clients, i \in Servers, mid \in MessageIds : EditStart(c, i, mid)
    \/ \E c \in Clients, i \in Servers, mid \in MessageIds : ReactStart(c, i, mid)
    \/ \E c \in Clients, i \in Servers, mid \in MessageIds : DeleteStart(c, i, mid)
    \/ \E c \in Clients : CreateInsertFails(c)
    \/ \E c \in Clients : EditUpdateFails(c)
    \/ \E c \in Clients : DeleteUpdateFails(c)
    \/ \E c \in Clients : ReactUpdateFails(c)

SpecFaults == Init /\ [][NextFaults]_vars

(***************************************************************************)
(* The lossy scenario: the read scenario while redis_publish of a create   *)
(* may raise.  create_message catches the exception (`except Exception:    *)
(* pass`) and goes on: the message is in the primary store and no          *)
(* message_created event reaches the subscription loops.                   *)
(***************************************************************************)
\* create_message: redis_publish raises and the exception is swallowed
CreatePublishFails(c) ==
    /\ req[c].pc = "c_publish"
    /\ Goto(c, "c_invalidate")
    /\ UNCHANGED <<now, cache, cacheVars, messages, window, redisCache, bus, cons, resp,
                   nextId, nWrites, nReads, hist>>

NextLossy ==
    \/ NextRead
    \/ \E c \in Clients : CreatePublishFails(c)

SpecLossy == Init /\ [][NextLossy]_vars

(***************************************************************************)
(* The staleness scenario: latest requests on either instance while the    *)
(* clock advances second by second; nothing is written.  A request takes   *)
(* far less than a second: the clock advances between requests.            *)
(***************************************************************************)
MaxClock == 31
MaxStaleReads == 3

\* a second passes
Elapse ==
    /\ now < MaxClock
    /\ \A c \in Clients : req[c].pc = "idle"
    /\ now' = now + 1
    /\ UNCHANGED <<cache, obs, lastSet, sysVars, auxVars>>

\* a latest request reaching any instance
GetStartAnywhere(c, i, n) ==
    /\ nReads < MaxStaleReads
    /\ get_latest_begin(c, i, n, None)

NextStale ==
    \/ Elapse
    \/ \E c \in Primary, i \in Instances, n \in Counts : GetStartAnywhere(c, i, n)
    \/ \E c \in Clients : GetRedis(c)
    \/ \E c \in Clients : GetWindow(c)
    \/ \E c \in Clients : GetEnrich(c)
    \/ \E c \in Clients : GetStore(c)

SpecStale == Init /\ [][NextStale]_vars

(***************************************************************************)
(* The resolver scenario: _resolve_reply_ref (routers/messages.py) and     *)
(* resolve_reply_reference (services/message_service.py), the same code,   *)
(* called on a snapshot over a collection holding messages of two threads. *)
(* A snapshot is a dict: a function from the keys present to their values. *)
(* Every value is a string; Null stands for None (JSON null), Absent marks *)
(* a key left out when the inputs are enumerated.                          *)
(***************************************************************************)
Null == "<null>"
Absent == "<absent>"
Threads == {"g", "h"}

\* the keys _resolve_reply_ref copies from the snapshot
SNAPSHOT_KEYS == {"messageId", "username", "text", "timestamp", "kind", "media", "audio",
                  "deleted", "deletedAt"}

\* the keys of the snapshots enumerated; avatar is a key outside SNAPSHOT_KEYS
InputKeys == {"messageId", "username", "text", "timestamp", "media", "avatar"}

InputValues ==
    [messageId : {"m1", "m3", "m9", Absent}, username : {"u9", Absent},
     text : {"hello", "", " ", Null, Absent}, timestamp : {"t1", "t2", Absent},
     media : {"ref.png", Absent}, avatar : {"a.png", Absent}]

\* the dict with the keys of r that are not marked absent
DictOf(r) == [k \in {x \in InputKeys : r[x] # Absent} |-> r[k]]

Snapshots == {DictOf(r) : r \in InputValues}

\* documents as create_message writes them (roomId = groupId); "" stands for a
\* field that is None or missing.  m1 and m3 share a timestamp across threads.
Documents ==
    { [messageId |-> "m1", roomId |-> "g", groupId |-> "g", timestamp |-> "t1",
       username |-> "u1", text |-> "first", kind |-> "text", media |-> "x.png",
       audio |-> "", deleted |-> FALSE, deletedAt |-> ""],
      [messageId |-> "m2", roomId |-> "g", groupId |-> "g", timestamp |-> "t2",
       username |-> "u2", text |-> "", kind |-> "", media |-> "",
       audio |-> "", deleted |-> TRUE, deletedAt |-> "t5"],
      [messageId |-> "m3", roomId |-> "h", groupId |-> "h", timestamp |-> "t1",
       username |-> "u3", text |-> "other", kind |-> "", media |-> "",
       audio |-> "y.ogg", deleted |-> FALSE, deletedAt |-> ""] }

\* dict.get(k) is truthy
Truthy(d, k) == k \in DOMAIN d /\ d[k] \notin {"", Null}

\* dict.setdefault(k, v)
setdefault(d, k, v) == IF k \in DOMAIN d THEN d ELSE With(d, k, v)

\* str.strip() == ""
Blank(t) == t \in {"", " "}

\* mutant of thread_scope_filter: no scope clause
thread_scope_any(doc, scope_id) == TRUE

\* _thread_scope_filter for the group collection: roomId or groupId is the scope
thread_scope_filter(doc, scope_id) == doc.roomId = scope_id \/ doc.groupId = scope_id

\* find_one({"$and": [{field: value}, scope_filter]}): None or <<document>>; the
\* documents enumerated have one match at most
find_one(coll, field, value, scope_id) ==
    LET hits == {d \in coll : d[field] = value /\ thread_scope_filter(d, scope_id)} IN
    IF hits = {} THEN None ELSE Some(CHOOSE d \in hits : TRUE)

\* mutant of needs_text: the original is always fetched
needs_text_always(out) == TRUE

\* needs_text: text is not a string, or is blank
needs_text(out) == "text" \notin DOMAIN out \/ out["text"] = Null \/ Blank(out["text"])

\* lines 117-131: the fields taken from the original
backfill(out, o) ==
    LET a == setdefault(setdefault(out, "messageId", o.messageId), "username", o.username)
        b == setdefault(With(a, "text", o.text), "timestamp", o.timestamp)
        c == IF o.kind # "" THEN setdefault(b, "kind", o.kind) ELSE b
        d == IF o.deleted
             THEN LET e == With(c, "deleted", "true") IN
                  IF o.deletedAt # "" THEN setdefault(e, "deletedAt", o.deletedAt) ELSE e
             ELSE c
        f == IF o.media # "" THEN setdefault(d, "media", o.media) ELSE d
    IN  IF o.audio # "" THEN setdefault(f, "audio", o.audio) ELSE f

\* _resolve_reply_ref(db, scope_id, ref): the result (None or <<dict>>) with the
\* lookups made and the original used
resolve_reply_reference(coll, scope_id, ref) ==
    IF DOMAIN ref = {}
    THEN [out |-> None, lookups |-> <<>>, original |-> None]
    ELSE LET out == [k \in DOMAIN ref \cap SNAPSHOT_KEYS |-> ref[k]]
             needs == needs_text(out)
             tryId == needs /\ Truthy(ref, "messageId")
             byId == IF tryId THEN find_one(coll, "messageId", ref["messageId"], scope_id)
                     ELSE None
             tryTs == needs /\ byId = None /\ Truthy(ref, "timestamp")
             original == IF tryTs THEN find_one(coll, "timestamp", ref["timestamp"], scope_id)
                         ELSE byId
             filled == IF original # None THEN backfill(out, original[1]) ELSE out
             final == IF "text" \notin DOMAIN filled \/ filled["text"] = Null
                      THEN With(filled, "text", "") ELSE filled
         IN  [out |-> Some(final),
              lookups |-> (IF tryId THEN <<"messageId">> ELSE <<>>)
                          \o (IF tryTs THEN <<"timestamp">> ELSE <<>>),
              original |-> original]

\* insert_one of a message of some thread, before the snapshot is resolved
InsertDocument(d) ==
    /\ resolution = None
    /\ d \notin collection
    /\ collection' = collection \cup {d}
    /\ UNCHANGED <<resolution, now, cache, obs, lastSet, sysVars, lockVars, transportVars,
                   computedAt, datingVars, dmVars>>

\* one call of _resolve_reply_ref
ResolveReply(scope_id, ref) ==
    /\ resolution = None
    /\ resolution' = Some([scope |-> scope_id, ref |-> ref,
                           result |-> resolve_reply_reference(collection, scope_id, ref)])
    /\ UNCHANGED <<collection, now, cache, obs, lastSet, sysVars, lockVars, transportVars,
                   computedAt, datingVars, dmVars>>

NextResolve ==
    \/ \E d \in Documents : InsertDocument(d)
    \/ \E scope_id \in Threads, ref \in Snapshots : ResolveReply(scope_id, ref)

SpecResolve == Init /\ [][NextResolve]_vars


(***************************************************************************)
(* The repair scenario: requests one after the other on one connection,    *)
(* a delete_message whose update of the window document raises, and        *)
(* backfill_replies.                                                       *)
(***************************************************************************)
\* the update_one of the window document raises inside the try block of
\* delete_message: the except clause swallows it and the handler goes on with
\* the reply-snapshot pass
window_patch_failed(c) == Goto(c, "d_rp_find") /\ UNCHANGED resp

DeleteWindowFails(c) ==
    /\ req[c].pc = "d_window"
    /\ window_patch_failed(c)
    /\ hist' = [hist EXCEPT !.patchFailed = @ \cup {req[c].mid}]
    /\ UNCHANGED <<now, cache, cacheVars, messages, window, redisCache, bus, cons, nextId,
                   nWrites, nReads>>

\* the loop of backfill_replies over the messages of the thread: a reply snapshot
\* whose text is blank is resolved again and stored
backfill_documents(msgs) ==
    [m \in DOMAIN msgs |->
        IF msgs[m].replyTo # None /\ msgs[m].replyTo[1].text = ""
        THEN [msgs[m] EXCEPT !.replyTo = resolve_reply_ref(msgs, msgs[m].replyTo)]
        ELSE msgs[m]]

\* backfill_replies, with no other request in flight: the loop, then
\* _invalidate_latest_cache, delete_prefix and publish_invalidate for the page
\* prefix, and the response
BackfillReplies(c, i) ==
    /\ \A d \in Clients : req[d].pc = "idle"
    /\ messages # EmptyDict
    /\ messages' = backfill_documents(messages)
    /\ cache' = [cache EXCEPT ![i] =
                   TTLCache_delete_prefix(invalidate_latest_local(cache[i]), PagePrefix).store]
    /\ redisCache' = redis_cache_delete_prefix(redisCache, LatestPrefix)
    /\ bus' = publish_invalidate(publish_invalidate(bus, LatestPrefix), PagePrefix)
    /\ hist' = Wrote(Published(Applied(hist, i, {LatestPrefix, PagePrefix}),
                               i, {LatestPrefix, PagePrefix}), c,
                     [inst |-> i, kind |-> "backfill", mid |-> 0, reactions |-> EmptyDict])
    /\ req' = [d \in Clients |-> [req[d] EXCEPT !.expect = None]]
    /\ resp' = [NoResp EXCEPT !.op = "backfill", !.status = 200]
    /\ UNCHANGED <<now, cacheVars, window, cons, nextId, nWrites, nReads>>

NextRepair ==
    \/ NextAppend
    \/ \E c \in Primary, i \in Servers, mid \in MessageIds : DeleteStart(c, i, mid)
    \/ \E c \in Clients : DeleteUpdate(c)
    \/ \E c \in Clients : DeleteReplies(c)
    \/ \E c \in Clients : DeleteWindow(c)
    \/ \E c \in Clients : DeleteWindowFails(c)
    \/ \E c \in Clients : DeleteFallbackFind(c)
    \/ \E c \in Clients : DeleteFallbackWrite(c)
    \/ \E c \in Clients : DeleteReplyFind(c)
    \/ \E c \in Clients : DeleteReplyWrite(c)
    \/ \E c \in Clients : DeleteInvalidate(c)
    \/ \E c \in Clients : DeleteReturn(c)
    \/ \E c \in Primary, i \in Servers : BackfillReplies(c, i)

SpecRepair == Init /\ [][NextRepair]_vars


(***************************************************************************)
(* The follow-up scenario: requests one after the other on one connection, *)
(* with an edit_message or a react_message after a delete_message.         *)
(***************************************************************************)
\* edit, delete and reaction requests of a run with a follow-up
MaxFollowUps == 2

\* an edit_message request, also after another write
EditFollowUp(c, i, mid) ==
    /\ nWrites < MaxFollowUps
    /\ edit_begin(c, i, mid)

\* a react_message request, also after another write
ReactFollowUp(c, i, mid) ==
    /\ nWrites < MaxFollowUps
    /\ react_begin(c, i, mid)

\* the steps of edit_message and react_message after their start
EditReactSteps ==
    \/ \E c \in Clients : EditUpdate(c)
    \/ \E c \in Clients : EditWindow(c)
    \/ \E c \in Clients : EditInvalidate(c)
    \/ \E c \in Clients : EditReturn(c)
    \/ \E c \in Clients, u \in Users, e \in Emojis : ReactUpdate(c, u, e)
    \/ \E c \in Clients : ReactInvalidate(c)
    \/ \E c \in Clients : ReactReturn(c)

\* the steps of delete_message after its start
DeleteSteps ==
    \/ \E c \in Clients : DeleteUpdate(c)
    \/ \E c \in Clients : DeleteReplies(c)
    \/ \E c \in Clients : DeleteWindow(c)
    \/ \E c \in Clients : DeleteFallbackFind(c)
    \/ \E c \in Clients : DeleteFallbackWrite(c)
    \/ \E c \in Clients : DeleteReplyFind(c)
    \/ \E c \in Clients : DeleteReplyWrite(c)
    \/ \E c \in Clients : DeleteInvalidate(c)
    \/ \E c \in Clients : DeleteReturn(c)

NextFollowUp ==
    \/ NextAppend
    \/ \E c \in Primary, i \in Servers, mid \in MessageIds : DeleteStart(c, i, mid)
    \/ DeleteSteps
    \/ \E c \in Primary, i \in Servers : BackfillReplies(c, i)
    \/ \E c \in Primary, i \in Servers, mid \in MessageIds : EditFollowUp(c, i, mid)
    \/ \E c \in Primary, i \in Servers, mid \in MessageIds : ReactFollowUp(c, i, mid)
    \/ EditReactSteps

SpecFollowUp == Init /\ [][NextFollowUp]_vars


(***************************************************************************)
(* The concurrent-writers scenario: edit_message and react_message         *)
(* requests on two connections at once.                                    *)
(***************************************************************************)
\* the users who react
Reactors == {"u1", "u2"}

NextConcurrent ==
    \/ NextAppend
    \/ \E c \in Clients, i \in Servers, mid \in MessageIds : EditFollowUp(c, i, mid)
    \/ \E c \in Clients, i \in Servers, mid \in MessageIds : ReactFollowUp(c, i, mid)
    \/ \E c \in Clients : EditUpdate(c)
    \/ \E c \in Clients : EditWindow(c)
    \/ \E c \in Clients : EditInvalidate(c)
    \/ \E c \in Clients : EditReturn(c)
    \/ \E c \in Clients, u \in Reactors, e \in Emojis : ReactUpdate(c, u, e)
    \/ \E c \in Clients : ReactInvalidate(c)
    \/ \E c \in Clients : ReactReturn(c)

SpecConcurrent == Init /\ [][NextConcurrent]_vars


(***************************************************************************)
(* The secondary photo scenario (routers/dating.py): one user's dating     *)
(* profile, created by PUT /dating/profile, and a sequence of              *)
(* POST /dating/profile/{user_id}/photos requests, one after the other.    *)
(* Of the profile document the model keeps primaryPhotoUrl and photos; the *)
(* upsert unsets photoUrl and photo.                                       *)
(***************************************************************************)
\* SECONDARY_PHOTO_LIMIT, 8 in the code
SECONDARY_PHOTO_LIMIT == 2
\* the longest photos array of a payload
MaxPayload == SECONDARY_PHOTO_LIMIT + 1

\* URLs as _clean_url returns them
Urls == {"p", "a", "b", "c"}
\* entries of a payload: a URL, a URL with leading white space, a string whose
\* scheme is not http(s)
RawEntries == Urls \cup {" a", "ftp:x"}
\* the photos arrays of a payload
PhotoArrays == UNION {[1..k -> RawEntries] : k \in 0..MaxPayload}

\* _clean_url: None or <<the stripped URL>>
clean_url(e) ==
    IF e = " a" THEN Some("a") ELSE IF e \in Urls THEN Some(e) ELSE None

\* the elements of a list
Elements(list) == {list[k] : k \in 1..Len(list)}

RECURSIVE Gather(_, _, _, _)
\* the loop shared by _normalize_photos, _collect_secondary_photos and
\* _sanitize_secondary_photos_input: clean each entry, skip what is not a URL,
\* the primary (when there is one) and what was seen, stop at limit entries
Gather(raw, acc, primary, limit) ==
    IF raw = <<>> \/ Len(acc) >= limit THEN acc
    ELSE LET u == clean_url(Head(raw)) IN
         IF u = None \/ u = primary \/ u[1] \in Elements(acc)
         THEN Gather(Tail(raw), acc, primary, limit)
         ELSE Gather(Tail(raw), Append(acc, u[1]), primary, limit)

\* _normalize_photos(raw, limit, allow_empty=True) of a list
normalize_photos(raw, limit) == Gather(raw, <<>>, None, limit)

\* _extract_primary_photo: primaryPhotoUrl, else the first entry of photos
extract_primary_photo(doc) ==
    IF doc.primaryPhotoUrl # None THEN doc.primaryPhotoUrl
    ELSE IF doc.photos # <<>> THEN Some(doc.photos[1])
    ELSE None

\* _collect_secondary_photos(doc, primary=primary)
collect_secondary_photos(doc, primary) ==
    Gather(doc.photos, <<>>, IF primary # None THEN primary ELSE extract_primary_photo(doc),
           SECONDARY_PHOTO_LIMIT)

\* the length checks of _sanitize_secondary_photos_input and of the handler
limit_exceeded(list) == Len(list) > SECONDARY_PHOTO_LIMIT

\* _sanitize_secondary_photos_input: None for ValueError, or <<the list>>
sanitize_secondary_photos_input(raw, primary) ==
    LET normalized == normalize_photos(raw, SECONDARY_PHOTO_LIMIT + 1) IN
    IF limit_exceeded(normalized) THEN None
    ELSE Some(Gather(normalized, <<>>, primary, SECONDARY_PHOTO_LIMIT))

\* PUT /dating/profile for a user without a profile, with primaryPhotoUrl (None:
\* not in the body) and photos in the body: the document stored.  With photos in
\* the body photoUrl is resolved to the first photo and overrides primaryPhotoUrl
put_profile(primary, photos) ==
    LET sanitized == normalize_photos(photos, SECONDARY_PHOTO_LIMIT)
        fromBody == IF primary = None THEN None ELSE clean_url(primary[1])
        candidate == IF sanitized # <<>> THEN Some(sanitized[1]) ELSE fromBody
    IN  [primaryPhotoUrl |-> candidate,
         photos |-> Gather(sanitized, <<>>, candidate, Len(sanitized))]

\* PUT /dating/profile: the profile is created
PutProfile(primary, photos) ==
    /\ profile = None
    /\ profile' = Some(put_profile(primary, photos))
    /\ photoResp' = [kind |-> "put", payload |-> photos, status |-> 200,
                     primaryPhotoUrl |-> None, photos |-> <<>>]
    /\ UNCHANGED <<now, cache, obs, lastSet, sysVars, lockVars, transportVars, computedAt,
                   resolverVars, dmVars>>

\* the response of set_profile_secondary_photos with an HTTPException
PhotoError(kind, payload, status) ==
    [kind |-> kind, payload |-> payload, status |-> status,
     primaryPhotoUrl |-> None, photos |-> <<>>]

\* set_profile_secondary_photos from its update_one on: the document stored and
\* the response built from it
StorePhotos(kind, payload, next_photos) ==
    IF limit_exceeded(next_photos)
    THEN /\ photoResp' = PhotoError(kind, payload, 400)
         /\ UNCHANGED profile
    ELSE LET updated == [profile[1] EXCEPT !.photos = next_photos]
             primary_updated == extract_primary_photo(updated)
         IN  /\ profile' = Some(updated)
             /\ photoResp' = [kind |-> kind, payload |-> payload, status |-> 200,
                              primaryPhotoUrl |-> primary_updated,
                              photos |-> collect_secondary_photos(updated, primary_updated)]

\* POST /dating/profile/{user_id}/photos with {"photos": raw}
PostPhotos(raw) ==
    /\ IF profile = None
       THEN /\ photoResp' = PhotoError("photos", raw, 404)
            /\ UNCHANGED profile
       ELSE LET primary_photo == extract_primary_photo(profile[1])
                next_photos == sanitize_secondary_photos_input(raw, primary_photo)
            IN  IF next_photos = None
                THEN /\ photoResp' = PhotoError("photos", raw, 400)
                     /\ UNCHANGED profile
                ELSE StorePhotos("photos", raw, next_photos[1])
    /\ UNCHANGED <<now, cache, obs, lastSet, sysVars, lockVars, transportVars, computedAt,
                   resolverVars, dmVars>>

\* POST /dating/profile/{user_id}/photos with {"url": e}
PostUrl(e) ==
    /\ IF profile = None
       THEN /\ photoResp' = PhotoError("url", <<e>>, 404)
            /\ UNCHANGED profile
       ELSE LET primary_photo == extract_primary_photo(profile[1])
                current_photos == collect_secondary_photos(profile[1], primary_photo)
                sanitized_url == clean_url(e)
            IN  IF sanitized_url = None \/ sanitized_url = primary_photo
                THEN /\ photoResp' = PhotoError("url", <<e>>, 400)
                     /\ UNCHANGED profile
                ELSE StorePhotos("url", <<e>>,
                                 IF sanitized_url[1] \in Elements(current_photos)
                                 THEN current_photos
                                 ELSE Append(current_photos, sanitized_url[1]))
    /\ UNCHANGED <<now, cache, obs, lastSet, sysVars, lockVars, transportVars, computedAt,
                   resolverVars, dmVars>>

NextPhotos ==
    \/ \E primary \in {None, Some("p")}, photos \in PhotoArrays : PutProfile(primary, photos)
    \/ \E raw \in PhotoArrays : PostPhotos(raw)
    \/ \E e \in RawEntries : PostUrl(e)

SpecPhotos == Init /\ [][NextPhotos]_vars

(***************************************************************************)
(* The DM scenario: dm_send and dm_latest requests on one DM thread, one   *)
(* after the other, on the instance the clients reach.  A DM message       *)
(* document has the fields of a group message document; createdAt is the   *)
(* creation instant, later for every later dm_send.  The requests carry no *)
(* If-None-Match header.                                                   *)
(***************************************************************************)
\* dm_send requests in one run
MaxDm == 3
\* the count parameter of dm_latest
DmCounts == 1..MaxDm
\* the DM thread of the model (dm_id)
DmId == "d"
\* ttl_seconds of the dm:latest entries
DM_LATEST_TTL == 15

DmLatestPrefix == <<"dm:latest:", DmId, ":">>
DmLatestKey(n) == <<"dm:latest:", DmId, ":", n>>

\* find({"dmId": dm_id}).sort("createdAt", 1).limit(n)
dm_find_latest(msgs, n) ==
    LET all == SortByCreatedAt(msgs, DOMAIN msgs) IN
    IF Len(all) > n THEN SubSeq(all, 1, n) ELSE all

\* dm_send: the reply snapshot, insert_one, and the delete_prefix of the
\* dm:latest entries (publish_invalidate reaches no consumer)
DmSend(i, rid) ==
    LET mid == Cardinality(DOMAIN dmMessages) + 1 IN
    /\ mid <= MaxDm
    /\ rid < mid
    /\ \E u \in Users :
         dmMessages' = With(dmMessages, mid,
                            NewDoc(mid, u, resolve_reply_ref(dmMessages, LooseRef(rid))))
    /\ cache' = [cache EXCEPT ![i] = TTLCache_delete_prefix(cache[i], DmLatestPrefix).store]
    /\ UNCHANGED <<dmResp, now, obs, lastSet, sysVars, lockVars, transportVars, computedAt,
                   resolverVars, datingVars>>

\* dm_latest: local_cache.get; on a miss the query, the enrichment of blank
\* reply snapshots and local_cache.set
DmLatest(i, n) ==
    LET r == TTLCache_get(cache[i], DmLatestKey(n), now)
        out == enrich_replies(dm_find_latest(dmMessages, n), dmMessages)
    IN
    /\ IF r.value # None
       THEN /\ cache' = [cache EXCEPT ![i] = r.store]
            /\ dmResp' = [n |-> n, body |-> r.value[1], hit |-> TRUE]
       ELSE /\ cache' = [cache EXCEPT ![i] =
                           TTLCache_set(r.store, DmLatestKey(n), out, DM_LATEST_TTL, now)]
            /\ dmResp' = [n |-> n, body |-> out, hit |-> FALSE]
    /\ UNCHANGED <<dmMessages, now, obs, lastSet, sysVars, lockVars, transportVars,
                   computedAt, resolverVars, datingVars>>

NextDm ==
    \/ \E i \in Servers, rid \in 0..MaxDm : DmSend(i, rid)
    \/ \E i \in Servers, n \in DmCounts : DmLatest(i, n)

SpecDm == Init /\ [][NextDm]_vars


(***************************************************************************)
(* Claims about the TTLCache and the invalidation handler, checked under   *)
(* SpecCache.  A step of SpecCache that leaves the clock alone is a call;  *)
(* obs' names the call and its result, cache the store before it and       *)
(* cache' the store after it.                                              *)
(***************************************************************************)
IsCall(op) == now' = now /\ obs'.op = op
StoreB == cache[CacheInstance]

\* C4 (as stated): after the handler processed {type: "invalidate", pattern: p}
\* from the cache topic, the local cache holds no key that starts with p, and
\* every key that does not start with p is unchanged -- for every p.
C4_EventEvictsPrefix_AsClaimed ==
    [][ (IsCall("event") /\ EndsWith(obs'.topic, "cache") /\ obs'.type = "invalidate")
        => /\ \A k \in DOMAIN StoreB' : ~StartsWith(k, obs'.key)
           /\ \A k \in DOMAIN StoreB :
                 ~StartsWith(k, obs'.key) => k \in DOMAIN StoreB' /\ StoreB'[k] = StoreB[k]
      ]_vars

\* C4 (amended): the same, for every non-empty pattern p; the entries under p
\* go whether or not they had expired, the others keep value and expiry.
C4_EventEvictsPrefix ==
    [][ (IsCall("event") /\ EndsWith(obs'.topic, "cache") /\ obs'.type = "invalidate"
           /\ obs'.key # <<>>)
        => /\ \A k \in DOMAIN StoreB' : ~StartsWith(k, obs'.key)
           /\ \A k \in DOMAIN StoreB :
                 ~StartsWith(k, obs'.key) => k \in DOMAIN StoreB' /\ StoreB'[k] = StoreB[k]
      ]_vars

\* C4 witness: an invalidation for "a:" has just removed two entries while an
\* entry under "b:" stays.
C4_Witness ==
    /\ obs.op = "event" /\ obs.type = "invalidate" /\ EndsWith(obs.topic, "cache")
    /\ obs.key = <<"a", ":">> /\ obs.count = 2
    /\ <<"b", ":", "1">> \in DOMAIN StoreB

\* C8 (as stated): get(key) returns absent whenever the key is missing or
\* now >= expiresAt, the instant now = expiresAt included, and removes the
\* expired entry; a get of a non-expired entry leaves the store unchanged.
C8_GetExpiry_AsClaimed ==
    [][ IsCall("get") =>
          LET k == obs'.key IN
          /\ k \notin DOMAIN StoreB => obs'.value = None /\ StoreB' = StoreB
          /\ (k \in DOMAIN StoreB /\ now >= StoreB[k].exp)
                => obs'.value = None /\ StoreB' = Without(StoreB, {k})
          /\ (k \in DOMAIN StoreB /\ now < StoreB[k].exp)
                => obs'.value = Some(StoreB[k].value) /\ StoreB' = StoreB
      ]_vars

\* C8 (amended): get(key) returns absent whenever the key is missing or
\* now > expiresAt, and removes the expired entry; at the instant
\* now = expiresAt and before it the value is returned and the store is unchanged.
C8_GetExpiry ==
    [][ IsCall("get") =>
          LET k == obs'.key IN
          /\ k \notin DOMAIN StoreB => obs'.value = None /\ StoreB' = StoreB
          /\ (k \in DOMAIN StoreB /\ now > StoreB[k].exp)
                => obs'.value = None /\ StoreB' = Without(StoreB, {k})
          /\ (k \in DOMAIN StoreB /\ now <= StoreB[k].exp)
                => obs'.value = Some(StoreB[k].value) /\ StoreB' = StoreB
      ]_vars

\* C8 witness: a get has just found the entry of a recorded set expired and
\* removed it.
C8_Witness ==
    /\ obs.op = "get" /\ obs.value = None
    /\ obs.key \in DOMAIN lastSet
    /\ obs.key \notin DOMAIN StoreB
    /\ \E k \in DOMAIN StoreB : k # obs.key

\* C9 (as stated): for an entry stored by set(k, v, ttl) at time t and not
\* overwritten or deleted since, a get(k) strictly before t + ttl returns v and
\* a get(k) strictly after t + ttl returns absent.
C9_TtlExpiry_AsClaimed ==
    [][ (IsCall("get") /\ obs'.key \in DOMAIN lastSet) =>
          LET s == lastSet[obs'.key] IN
          /\ now < s.t + s.ttl => obs'.value = Some(s.value)
          /\ now > s.t + s.ttl => obs'.value = None
      ]_vars

\* C9 (amended): the same with expiresAt = t + max(0, ttl) in place of t + ttl.
C9_TtlExpiry ==
    [][ (IsCall("get") /\ obs'.key \in DOMAIN lastSet) =>
          LET s == lastSet[obs'.key]
              expiresAt == IF s.ttl < 0 THEN s.t ELSE s.t + s.ttl IN
          /\ now < expiresAt => obs'.value = Some(s.value)
          /\ now > expiresAt => obs'.value = None
      ]_vars

\* C9 witness: a get strictly after t + max(0, ttl) of a recorded set with a
\* positive ttl has just returned absent.
C9_Witness ==
    /\ obs.op = "get" /\ obs.value = None
    /\ obs.key \in DOMAIN lastSet
    /\ lastSet[obs.key].ttl > 0
    /\ now > lastSet[obs.key].t + lastSet[obs.key].ttl

\* C10: set(k, v, ttl) stores expiresAt = now + max(0, ttl), a negative ttl like
\* ttl 0, replaces value and expiry of an existing entry for k and leaves every
\* other key unchanged.
C10_SetStores ==
    [][ IsCall("set") =>
          LET k == obs'.key IN
          /\ DOMAIN StoreB' = DOMAIN StoreB \cup {k}
          /\ StoreB'[k].value = obs'.value[1]
          /\ StoreB'[k].exp = (IF obs'.ttl <= 0 THEN now ELSE now + obs'.ttl)
          /\ \A j \in DOMAIN StoreB \ {k} : StoreB'[j] = StoreB[j]
      ]_vars

\* C10 witness: a set with a negative ttl has just stored an entry that expires
\* now, next to an entry under another key with a later expiry.
C10_Witness ==
    /\ obs.op = "set" /\ obs.ttl < 0
    /\ obs.key \in DOMAIN StoreB
    /\ StoreB[obs.key] = [value |-> obs.value[1], exp |-> now]
    /\ \E j \in DOMAIN StoreB : j # obs.key /\ StoreB[j].exp > now


(***************************************************************************)
(* The window document.                                                    *)
(***************************************************************************)
\* C2: in every reachable state the window document has at most N items, whatever
\* message_created events, edits, deletes and reactions have been applied.
C2_WindowBound == Len(window) <= Window

\* more than N appends have happened, the window is full, and an edit, delete or
\* reaction request has run to its end
C2_Witness ==
    /\ Len(hist.appended) > Window
    /\ Len(window) = Window
    /\ nWrites > 0
    /\ \A c \in Clients : req[c].pc = "idle"

\* C3: once more than N messages have been appended by _update_latest_messages, the
\* window holds exactly N items: the last N appended, in the order of their appends.
C3_LastNAppended ==
    LET M == Len(hist.appended) IN
    M > Window =>
        /\ Len(window) = Window
        /\ \A k \in 1..Window : window[k].messageId = hist.appended[M - Window + k]

\* more than N appends, and the window's items are of different messages
C3_Witness ==
    /\ Len(hist.appended) > Window
    /\ \E j, k \in 1..Len(window) : window[j].messageId # window[k].messageId

(***************************************************************************)
(* Invalidation fan-out and the order of a write's steps.                  *)
(***************************************************************************)
InvalidatedPrefixes == {LatestPrefix, PagePrefix, GroupsListPrefix}

\* C5: every publish_invalidate(p) by a writer on instance A is eventually followed
\* by instance B applying delete_prefix(p) to its local cache.
C5_InvalidationReachesB ==
    \A p \in InvalidatedPrefixes : (p \in hist.pendingInv) ~> (p \notin hist.pendingInv)

\* the window document reflects the write of the request on connection c
WindowReflects(c) ==
    LET mid == req[c].mid
        at == {k \in 1..Len(window) : window[k].messageId = mid} IN
    CASE req[c].op = "create" -> at # {}
      [] req[c].op = "edit"   -> \A k \in at : window[k].text = EditedText
      [] req[c].op = "delete" -> \A k \in at : window[k].deleted /\ window[k].text = ""
      [] req[c].op = "react"  -> \A k \in at : window[k].reactions = messages[mid].reactions
      [] OTHER -> TRUE

\* the request on connection c takes the step that evicts the thread's keys from
\* the local cache
Evicts(c) ==
    /\ req[c].pc \in {"c_invalidate", "e_invalidate", "d_invalidate", "r_invalidate"}
    /\ req'[c].pc # req[c].pc

\* C7: in every write path the window document is updated before the local cache
\* eviction: no eviction for a write happens before the window reflects that write.
C7_WindowBeforeEviction ==
    [][\A c \in Clients : Evicts(c) => WindowReflects(c)]_vars

(***************************************************************************)
(* get_latest_messages after a write.                                      *)
(***************************************************************************)
\* C1: once delete_message(X) has returned on an instance, no later
\* get_latest_messages on that instance returns X with non-empty text or with media.
C1_DeletedStaysHidden ==
    resp.op = "latest" =>
        \A k \in 1..Len(resp.body) :
            resp.body[k].messageId \in resp.deletedBefore =>
                resp.body[k].text = "" /\ ~resp.body[k].media

\* the list returned reflects the write w
Reflects(body, w) ==
    LET at == {k \in 1..Len(body) : body[k].messageId = w.mid} IN
    CASE w.kind = "create" -> at # {}
      [] w.kind = "edit"   -> \A k \in at : body[k].text = EditedText
      [] w.kind = "delete" -> \A k \in at : body[k].deleted /\ body[k].text = ""
      [] w.kind = "react"  -> \A k \in at : body[k].reactions = w.reactions
      [] OTHER -> TRUE

\* C6: after a create, edit, delete or reaction has returned on an instance, the next
\* get_latest_messages on that instance, with no other request in flight, returns a
\* list that reflects that write.
C6_ReadYourWrites ==
    (resp.op = "latest" /\ resp.expect # None) => Reflects(resp.body, resp.expect[1])


(***************************************************************************)
(* TTLCache.delete_prefix and repeated invalidation events.                *)
(***************************************************************************)
\* C11: delete_prefix(p) removes exactly the keys that start with p, returns the
\* number of keys it removed, and leaves every other key, value and expiry, unchanged.
C11_DeletePrefixFrame ==
    [][ IsCall("delete_prefix") =>
          LET gone == {k \in DOMAIN StoreB : StartsWith(k, obs'.key)} IN
          /\ StoreB' = Without(StoreB, gone)
          /\ obs'.count = Cardinality(gone)
      ]_vars

\* C11 witness: delete_prefix("a:") has just removed two entries and returned 2,
\* while the entry under "b:" stays.
C11_Witness ==
    /\ obs.op = "delete_prefix" /\ obs.key = <<"a", ":">> /\ obs.count = 2
    /\ DOMAIN StoreB = {<<"b", ":", "1">>}


(***************************************************************************)
(* The lock of the TTLCache.                                               *)
(***************************************************************************)
\* C12: under any interleaving of concurrent get, set and delete_prefix calls on one
\* TTLCache at most one call is inside the lock-protected region, the store and the
\* values returned equal those of the calls run one after the other (in the order
\* they took the lock), and a call that has returned to its caller, which goes on to
\* its awaits on the stores and the network, does not hold the lock.
C12_LockSerializes ==
    /\ Cardinality({t \in Tasks : calls[t].pc \in InRegion}) <= 1
    /\ lockHolder = None => LockedStore = seqStore
    /\ \A t \in Tasks :
         calls[t].pc = "returned" =>
             calls[t].result = calls[t].expected /\ lockHolder # Some(t)

\* C12 witness: a call is inside the region while the other task waits for the
\* lock, after an earlier call has filled the store
C12_Witness ==
    /\ \E t, u \in Tasks : calls[t].pc \in InRegion /\ calls[u].pc = "acquire"
    /\ nCalls >= 3
    /\ DOMAIN LockedStore # {}

(***************************************************************************)
(* The bus functions.                                                      *)
(***************************************************************************)
\* the functions that publish
PublishOps == {"publish", "kafka_publish", "publish_invalidate"}

\* C13: redis_bus.publish, kafka.publish and publish_invalidate always return
\* normally to the caller: no call of them ends with an exception raised.
C13_PublishReturns == api.op \in PublishOps => api.pc # "raised"

\* the subscription loops that exist
LiveLoops == {l \in LoopIds : Live(l)}

\* C14: after any sequence of start_consumer calls at most one subscription loop
\* exists, and a start_consumer call made while a loop is running changes nothing:
\* no task is created, the client stays as it is and the call returns.
C14_StartConsumerIdempotent ==
    [][ /\ Cardinality({l \in 1..Len(loops') : loops'[l].pc # "done"}) <= 1
        /\ (api'.op = "start_consumer" /\ nApi' = nApi + 1 /\ LiveLoops # {}) =>
              /\ loops' = loops /\ listener_task' = listener_task
              /\ client' = client /\ connOpen' = connOpen
              /\ api'.pc = "returned"
      ]_vars

\* C14 witness: start_consumer was called while the loop it had created earlier
\* was running, and the loop goes on handling messages
C14_Witness ==
    /\ api.op = "start_consumer" /\ api.event = "task_found" /\ api.pc = "returned"
    /\ Len(loops) = 1 /\ loops[1].pc = "handling"

\* the messages loop l has called the handler for
HandledBy(l) == {i \in 1..Len(feed) : <<l, i>> \in handled}

\* C15: a message whose payload cannot be decoded, or for which the handler raises,
\* does not end the subscription loop: a loop ends only by cancellation or by an
\* error of the subscription itself, and every decodable message a loop has received,
\* also after such a message, has been passed to the handler.
C15_LoopSurvivesBadMessage ==
    \A l \in LoopIds :
        /\ ~Live(l) => loops[l].why \in {"cancelled", "subscribe_error", "listen_error"}
        /\ HandledBy(l) = {i \in (loops[l].sub + 1)..loops[l].pos : Decodable(feed[i])}

\* C15 witness: the handler raised for the first message and the loop has passed
\* the second one to the handler
C15_Witness ==
    /\ feed = <<"nondict", "event">>
    /\ Len(loops) = 1 /\ loops[1].pc = "handling" /\ HandledBy(1) = {1, 2}

\* loop l has received feed[i] and is through with it: skipped, or the handler has ended
Processed(l, i) ==
    l \in LoopIds /\ (loops[l].pos > i \/ (loops[l].pos = i /\ loops[l].pc = "listening"))

\* C16: a handler call that never returns does not block the loop forever: every
\* message delivered to a subscribed loop is eventually processed by it, unless the
\* loop ends.
C16_HungHandlerSkipped ==
    \A l \in 1..MaxApi, i \in 1..MaxFeed :
        (l \in LoopIds /\ loops[l].pc \in {"listening", "handling"}
           /\ loops[l].sub < i /\ i <= Len(feed))
        ~> (l \in LoopIds /\ (~Live(l) \/ Processed(l, i)))

\* redis_bus.stop has returned and no bus function was called since
StopReturned == api.op = "stop" /\ api.pc = "returned"

\* C17: stop never raises, also when no loop was ever started; when it has returned
\* there is no subscription loop, no open pubsub and no open client connection;
\* the handler is called only by a loop that exists, so by none until a loop is
\* started again; and a start_consumer call after it (bus enabled, redis_url set)
\* does not return early but goes on to connect and create a loop.
C17_StopReleases ==
    [][ /\ api'.op \in {"stop", "kafka_stop"} => api'.pc # "raised"
        /\ (api'.op = "stop" /\ api'.pc = "returned") =>
              /\ \A l \in 1..Len(loops') :
                     loops'[l].pc = "done" /\ loops'[l].pubsub # "open"
              /\ ~connOpen' /\ ~client' /\ listener_task' = None
        /\ \A h \in handled' \ handled : Live(h[1])
        /\ (StopReturned /\ api'.op = "start_consumer"
              /\ settings.redis_pubsub_enabled /\ settings.redis_url) =>
              api'.pc = "ensure_client"
      ]_vars

\* C17 witness: stop has cancelled the first loop, which was handling a message,
\* and a start_consumer call after it has created a second loop, now listening
C17_Witness ==
    /\ Len(loops) = 2
    /\ loops[1].why = "cancelled" /\ loops[1].pos = 1 /\ loops[1].pubsub = "closed"
    /\ loops[2].pc = "listening"

(***************************************************************************)
(* Duplicate events.                                                       *)
(***************************************************************************)
\* the event handled in this step is the one handled by the call before (a
\* duplicate delivery), or an invalidation of the prefix the call before has
\* deleted itself (the originator's own broadcast coming back)
Redelivered ==
    \/ obs.op = "event" /\ obs.topic = obs'.topic /\ obs.type = obs'.type
          /\ obs.key = obs'.key
    \/ obs.op = "delete_prefix" /\ obs.key = obs'.key /\ obs'.key # <<>>
          /\ EndsWith(obs'.topic, "cache") /\ Lower(obs'.type) = "invalidate"

\* C18: handling an invalidation event more than once leaves the local cache as
\* handling it once does: handling the event just handled once more changes
\* nothing, and an event delivered again, or the broadcast of a prefix the instance
\* has just deleted itself, evicts nothing.
C18_DuplicateEventHarmless ==
    [][ IsCall("event") =>
          /\ handle_cache_event(StoreB', obs'.topic, obs'.type, obs'.key) = StoreB'
          /\ Redelivered => StoreB' = StoreB /\ obs'.count = 0
      ]_vars

\* C18 witness: after the clock has moved, an invalidation of "a:" has been handled
\* with no entry under "a:" left to evict, as on its second delivery; the entry
\* under "b:" is still there
C18_Witness ==
    /\ obs.op = "event" /\ obs.type = "invalidate" /\ obs.count = 0
    /\ EndsWith(obs.topic, "cache") /\ obs.key = <<"a", ":">>
    /\ DOMAIN StoreB = {<<"b", ":", "1">>}
    /\ now > 1

(***************************************************************************)
(* The items of the window.                                                *)
(***************************************************************************)
\* C19: in every reachable state each messageId occurs at most once in the
\* window's items, also when several instances handle the message_created event
\* of one message.
C19_WindowIdsDistinct ==
    \A j, k \in 1..Len(window) : window[j].messageId = window[k].messageId => j = k

\* C20: the window patch of edit_message, for a message present in the window,
\* sets text, edited and lastEditedAt of the item located by the messageId (the
\* first one carrying it) and changes nothing else: the number of items, the
\* sequence of messageIds and every other item are the same before and after.
C20_EditPatchFrame ==
    [][ \A c \in Clients :
          (req[c].pc = "e_window" /\ req'[c].pc = "e_invalidate"
             /\ FirstIndexOf(window, req[c].mid) # 0) =>
            LET k == FirstIndexOf(window, req[c].mid) IN
            /\ Len(window') = Len(window)
            /\ \A j \in 1..Len(window) :
                  /\ window'[j].messageId = window[j].messageId
                  /\ j # k => window'[j] = window[j]
            /\ window'[k] = [window[k] EXCEPT !.text = EditedText, !.edited = TRUE,
                                              !.lastEditedAt = now]
      ]_vars

\* C20 witness: the edit of the first of two different messages in the window has
\* just patched its item; the item after it is as it was
C20_Witness ==
    \E c \in Clients :
        /\ req[c].op = "edit" /\ req[c].pc = "e_invalidate"
        /\ Len(window) = 2
        /\ window[1].messageId = req[c].mid /\ window[1].text = EditedText
        /\ window[1].edited /\ window[1].lastEditedAt # 0
        /\ window[2].messageId # req[c].mid /\ ~window[2].edited

(***************************************************************************)
(* delete_message and the window.                                          *)
(***************************************************************************)
\* the request on connection c is a delete_message that returns success in this step
DeleteReturns(c) == req[c].op = "delete" /\ req[c].pc = "d_return" /\ req'[c].pc = "idle"

\* a step of the delete_message on connection c that writes the window document
DeleteWritesWindow(c) ==
    req[c].pc \in {"d_window", "d_fb_write", "d_rp_write"} /\ req'[c].pc # req[c].pc

\* C21: when delete_message(X) returns success every window item whose messageId
\* is X has deleted = true, a deletedAt value, empty text and no media, and the
\* writes of delete_message to the window leave the number of items and the order
\* of the messageIds as they were.
C21_DeletePatchesWindow ==
    [][ \A c \in Clients :
          /\ DeleteReturns(c) =>
                \A k \in 1..Len(window') :
                    window'[k].messageId = req[c].mid =>
                        /\ window'[k].deleted /\ window'[k].deletedAt # 0
                        /\ window'[k].text = "" /\ ~window'[k].media
          /\ DeleteWritesWindow(c) =>
                /\ Len(window') = Len(window)
                /\ \A k \in 1..Len(window) : window'[k].messageId = window[k].messageId
      ]_vars

\* the message or window item m carries a reply snapshot that names message mid
NamesId(m, mid) == m.replyTo # None /\ m.replyTo[1].messageId = mid

\* the reply snapshot of m is marked deleted and has no text
ReplyHidden(m) == m.replyTo[1].deleted /\ m.replyTo[1].text = ""

\* m and n are the same but for their reply snapshots
SameButReply(m, n) == [m EXCEPT !.replyTo = None] = [n EXCEPT !.replyTo = None]

\* C22: when delete_message(X) returns, every message Y whose reply snapshot
\* names X has replyTo.deleted = true and replyTo.text empty, in the primary store
\* and in every window item of Y, and the steps of delete_message that write
\* reply snapshots leave Y's own text and every other field of Y as they were.
C22_DeleteHidesReplySnapshots ==
    [][ \A c \in Clients :
          /\ DeleteReturns(c) =>
                /\ \A y \in DOMAIN messages' :
                       NamesId(messages'[y], req[c].mid) => ReplyHidden(messages'[y])
                /\ \A k \in 1..Len(window') :
                       NamesId(window'[k], req[c].mid) => ReplyHidden(window'[k])
          /\ (req[c].pc = "d_replies" /\ req'[c].pc # req[c].pc) =>
                \A y \in DOMAIN messages : SameButReply(messages'[y], messages[y])
          /\ (req[c].pc = "d_rp_write" /\ req'[c].pc # req[c].pc) =>
                /\ Len(window') = Len(window)
                /\ \A k \in 1..Len(window) : SameButReply(window'[k], window[k])
      ]_vars

\* C23: when delete_message(X) returns, every message of the primary store and
\* every window item whose reply snapshot refers to X (by messageId, or by
\* timestamp and author for a snapshot without an id) has replyTo.deleted = true,
\* an empty replyTo.text and no media or audio in replyTo.
ReplyCleared(m) == m.replyTo[1].deleted /\ m.replyTo[1].text = "" /\ ~m.replyTo[1].media
C23_DeleteClearsEveryReference ==
    [][ \A c \in Clients :
          DeleteReturns(c) =>
             LET x == messages'[req[c].mid] IN
             /\ \A y \in DOMAIN messages' :
                    RefersTo(messages'[y], x) => ReplyCleared(messages'[y])
             /\ \A k \in 1..Len(window') :
                    RefersTo(window'[k], x) => ReplyCleared(window'[k])
      ]_vars

\* C24: when react_message returns for message m, every window item of m has the
\* reactions map stored for m in the primary store, and the steps of
\* react_message change no other field of that item and no other item.
ReactReturns(c) == req[c].op = "react" /\ req[c].pc = "r_return" /\ req'[c].pc = "idle"
SameButReactions(m, n) == [m EXCEPT !.reactions = EmptyDict] = [n EXCEPT !.reactions = EmptyDict]
C24_ReactPatchesWindow ==
    [][ \A c \in Clients :
          /\ ReactReturns(c) =>
                \A k \in 1..Len(window') :
                    window'[k].messageId = req[c].mid =>
                        window'[k].reactions = messages'[req[c].mid].reactions
          /\ (req[c].op = "react" /\ req'[c].pc # req[c].pc) =>
                /\ Len(window') = Len(window)
                /\ \A k \in 1..Len(window) :
                       /\ SameButReactions(window'[k], window[k])
                       /\ window[k].messageId # req[c].mid => window'[k] = window[k]
      ]_vars

\* C25: a latest request of count n that misses both caches and finds no window
\* document queries the primary store: the list it gets holds Min(n, number of
\* messages) documents of the store, createdAt ascending, none of the messages
\* left out newer than one returned; the enrichment changes reply snapshots only,
\* and the response to a request without If-None-Match is that list with status
\* 200 (the empty list when the thread has no message).
IsLatestOf(items, msgs, n) ==
    /\ Len(items) = IF Cardinality(DOMAIN msgs) < n THEN Cardinality(DOMAIN msgs) ELSE n
    /\ \A k \in 1..Len(items) :
          /\ items[k].messageId \in DOMAIN msgs
          /\ items[k] = msgs[items[k].messageId]
          /\ k < Len(items) => items[k].createdAt < items[k + 1].createdAt
    /\ \A m \in DOMAIN msgs :
          (\A k \in 1..Len(items) : items[k].messageId # m) =>
              \A k \in 1..Len(items) : msgs[m].createdAt <= items[k].createdAt
C25_FallbackRead ==
    [][ \A c \in Clients :
          /\ (req[c].pc = "g_window" /\ req[c].items = <<>> /\ req'[c].pc # "g_window") =>
                /\ req'[c].pc = "g_enrich"
                /\ IsLatestOf(req'[c].items, messages, req[c].n)
          /\ (req[c].pc = "g_enrich" /\ req'[c].pc # "g_enrich") =>
                /\ req'[c].pc = "g_store"
                /\ Len(req'[c].items) = Len(req[c].items)
                /\ \A k \in 1..Len(req[c].items) :
                       SameButReply(req'[c].items[k], req[c].items[k])
          /\ (req[c].pc = "g_store" /\ req'[c].pc # "g_store" /\ req[c].inm = None) =>
                /\ resp'.status = 200
                /\ resp'.body = req[c].items
      ]_vars
C25_Witness ==
    \E c \in Clients :
        /\ req[c].pc = "g_enrich" /\ req[c].n = 1 /\ window = <<>>
        /\ Cardinality(DOMAIN messages) = 2
        /\ Len(req[c].items) = 1 /\ req[c].items[1].messageId = 2

\* C26: a request whose write to the primary store raises ends with status 500 in
\* that step, and no step of the request, from its start to the failure, changes
\* the primary store, the window document, a local cache, the Redis cache or the
\* bus.
WritePcs == {"c_insert", "e_update", "d_update", "r_update"}
StoresUntouched ==
    /\ messages' = messages /\ window' = window /\ cache' = cache
    /\ redisCache' = redisCache /\ bus' = bus
C26_WriteFailurePropagates ==
    [][ \A c \in Clients :
          /\ (req[c].pc = "idle" /\ req'[c].pc \in WritePcs) => StoresUntouched
          /\ (req[c].pc \in WritePcs /\ messages' = messages /\ req'[c].pc # req[c].pc) =>
                /\ req'[c].pc = "idle"
                /\ resp'.status = 500 /\ resp'.op = req[c].op
                /\ StoresUntouched
      ]_vars
C26_Witness ==
    /\ resp.status = 500 /\ resp.op = "edit"
    /\ window # <<>>
    /\ cache["A"] # EmptyDict /\ redisCache # EmptyDict

\* C27: resolving a snapshot that carries only reply-reference fields and whose
\* text has a character other than white space makes no lookup and returns the
\* snapshot itself: the same keys with the same values.
Resolved == resolution # None /\ resolution[1].result.out # None
WellFormed(ref) == DOMAIN ref \subseteq SNAPSHOT_KEYS
HasText(ref) == "text" \in DOMAIN ref /\ ref["text"] # Null
C27_ResolvedTextKept ==
    Resolved =>
        LET ref == resolution[1].ref  res == resolution[1].result IN
        (WellFormed(ref) /\ HasText(ref) /\ ~Blank(ref["text"])) =>
            /\ res.lookups = <<>>
            /\ res.original = None
            /\ res.out = Some(ref)
C27_Witness ==
    /\ Resolved
    /\ LET ref == resolution[1].ref IN
       /\ HasText(ref) /\ ref["text"] = "hello"
       /\ Truthy(ref, "messageId") /\ ref["messageId"] = "m1"
       /\ WellFormed(ref)
    /\ resolution[1].scope = "g"
    /\ \E d \in collection : d.messageId = "m1"
\* C27 as stated: any non-empty string as text
C27_NonEmptyTextKept ==
    Resolved =>
        LET ref == resolution[1].ref  res == resolution[1].result IN
        (WellFormed(ref) /\ HasText(ref) /\ ref["text"] # "") =>
            /\ res.lookups = <<>>
            /\ res.out = Some(ref)

\* C28: resolving a snapshot of reply-reference fields whose text is missing, null
\* or empty looks the original up by messageId when the snapshot has one, and by
\* timestamp when it has no messageId or no message of the thread has that
\* messageId; the original used is a message of the thread of the call that
\* matches the lookup that found it; when none is found the result is the snapshot
\* with text "".
NoText(ref) == "text" \notin DOMAIN ref \/ ref["text"] \in {Null, ""}
InThread(d, scope_id) == d.roomId = scope_id /\ d.groupId = scope_id
IdHits(ref, scope_id) ==
    {d \in collection : d.messageId = ref["messageId"] /\ InThread(d, scope_id)}
LookupOrder(ref, scope_id, lookups) ==
    LET hasId == Truthy(ref, "messageId")
        hasTs == Truthy(ref, "timestamp")
        idFound == hasId /\ IdHits(ref, scope_id) # {}
    IN  lookups = (IF hasId THEN <<"messageId">> ELSE <<>>)
                  \o (IF hasTs /\ ~idFound THEN <<"timestamp">> ELSE <<>>)
C28_LookupScopedToThread ==
    Resolved =>
        LET ref == resolution[1].ref  res == resolution[1].result
            scope_id == resolution[1].scope
        IN
        (WellFormed(ref) /\ NoText(ref)) =>
            /\ LookupOrder(ref, scope_id, res.lookups)
            /\ res.original # None =>
                  /\ res.original[1] \in collection
                  /\ InThread(res.original[1], scope_id)
                  /\ IF Truthy(ref, "messageId") /\ IdHits(ref, scope_id) # {}
                     THEN res.original[1].messageId = ref["messageId"]
                     ELSE res.original[1].timestamp = ref["timestamp"]
            /\ res.original = None => res.out = Some(With(ref, "text", ""))
C28_Witness ==
    /\ Resolved
    /\ LET ref == resolution[1].ref  res == resolution[1].result IN
       /\ WellFormed(ref) /\ NoText(ref)
       /\ Truthy(ref, "messageId") /\ ref["messageId"] = "m3"
       /\ Truthy(ref, "timestamp") /\ ref["timestamp"] = "t1"
       /\ res.original = None
    /\ resolution[1].scope = "g"
    /\ \E d \in collection : d.messageId = "m3"
\* C28 as stated: the timestamp lookup is made only for a snapshot without messageId
C28_TimestampOnlyWithoutId ==
    Resolved =>
        LET ref == resolution[1].ref  res == resolution[1].result
            scope_id == resolution[1].scope
        IN
        (WellFormed(ref) /\ NoText(ref)) =>
            /\ (\E k \in 1..Len(res.lookups) : res.lookups[k] = "timestamp") =>
                   ~Truthy(ref, "messageId")
            /\ res.original # None => InThread(res.original[1], scope_id)
            /\ res.original = None => res.out = Some(With(ref, "text", ""))

\* C29: a latest response carries the ETag of its payload; it has status 304 and
\* an empty body when the If-None-Match of the request equals that ETag, and
\* status 200 with the payload otherwise; and a response served from a cache
\* carries the ETag of the latest response before it for the same count, when no
\* other response came between.
HitAtStart(c) == req[c].pc = "idle" /\ req'[c].pc = "idle" /\ nReads' # nReads
LatestResponds(c) ==
    HitAtStart(c) \/ (req[c].pc \in {"g_redis", "g_store"} /\ req'[c].pc = "idle")
FromCache(c) == req[c].pc \in {"idle", "g_redis"}
PayloadOf(c) ==
    IF req[c].pc = "idle" THEN cache[resp'.inst][LatestKey(resp'.n)].value
    ELSE IF req[c].pc = "g_redis" THEN req[c].doc[1] ELSE req[c].items
C29_ETagRoundTrip ==
    [][ \A c \in Primary :
          LatestResponds(c) =>
             /\ resp'.etag = Some(weak_etag(PayloadOf(c)))
             /\ resp'.inm = resp'.etag => (resp'.status = 304 /\ resp'.body = <<>>)
             /\ resp'.inm # resp'.etag => (resp'.status = 200 /\ resp'.body = PayloadOf(c))
             /\ (FromCache(c) /\ resp.op = "latest" /\ resp.n = resp'.n) =>
                   resp'.etag = resp.etag
      ]_vars
C29_Witness ==
    /\ resp.op = "latest" /\ resp.status = 304 /\ resp.n = 2
    /\ nReads = 2 /\ resp.inm = resp.etag
    /\ DOMAIN messages = {1, 2}
    /\ resp.etag = Some(weak_etag(<<messages[1], messages[2]>>))
    /\ \A c \in Clients : req[c].pc = "idle"
    /\ LatestKey(2) \in DOMAIN cache["A"]

\* C30: a list that a latest request takes from the local cache or from the
\* Redis cache was computed at most LATEST_CACHE_TTL seconds before the moment
\* the request reads it.
LocalHit(c) == req[c].pc = "idle" /\ req'[c].pc = "idle" /\ nReads' # nReads
RedisHit(c) == req[c].pc = "idle" /\ req'[c].pc = "g_redis" /\ req'[c].doc # None
C30_CachedAgeWithinTtl ==
    [][ \A c \in Primary :
          /\ LocalHit(c) => now - computedAt[resp'.n] <= LATEST_CACHE_TTL
          /\ RedisHit(c) => now - computedAt[req'[c].n] <= LATEST_CACHE_TTL
      ]_vars

(***************************************************************************)
(* Concurrent writers of the window document.                              *)
(***************************************************************************)
\* the messageIds of the window items, in order
WindowIds(items) == [k \in 1..Len(items) |-> items[k].messageId]

\* the subscription loop of some instance appends to the window in this step
Appends == \E i \in Instances : cons[i].pc = "push" /\ cons'[i].pc = "refresh"

\* the request on connection c is an edit_message that returns success in this step
EditReturns(c) == req[c].op = "edit" /\ req[c].pc = "e_return" /\ req'[c].pc = "idle"

\* no step of a request handler takes an item out of the window
AppendsKept == Appends \/ WindowIds(window') = WindowIds(window)

\* the patch of the delete or edit that returns on connection c is on every
\* window item of its message
PatchKept(c) ==
    /\ DeleteReturns(c) =>
          \A k \in 1..Len(window') :
              window'[k].messageId = req[c].mid => window'[k].deleted
    /\ EditReturns(c) =>
          \A k \in 1..Len(window') :
              window'[k].messageId = req[c].mid => window'[k].edited

\* C31: under every interleaving of the window appends with a delete_message or
\* an edit_message on the thread no update of the window is lost: only an append
\* (with its $slice) changes which items the window holds, and when the delete or
\* the edit returns its patch is on every window item of its message.
C31_NoLostWindowUpdate ==
    [][ AppendsKept /\ \A c \in Clients : PatchKept(c) ]_vars

\* C32: the items of the window document are in the order in which the primary
\* store accepted their messages: createdAt never decreases along the items,
\* whatever the interleaving of the create_message requests and of the loops
\* that process their message_created events.
C32_WindowInAcceptanceOrder ==
    \A j, k \in 1..Len(window) : j < k => window[j].createdAt <= window[k].createdAt

(***************************************************************************)
(* The subscription loop and the size-keyed cache entries.                 *)
(***************************************************************************)
\* the loop of instance i finishes the handling of a message_created event in
\* this step
FinishesCreated(i) == cons[i].pc = "refresh" /\ cons'[i].pc = "idle"

\* C33: when an instance has finished processing a message_created event, its
\* local cache holds an entry messages:latest:g:n for each refresh size n, equal
\* to the last n items of the updated window.
C33_RefreshedEntriesHeld ==
    [][ \A i \in Instances :
          FinishesCreated(i) =>
             \A n \in RefreshSizes :
                 /\ LatestKey(n) \in DOMAIN cache'[i]
                 /\ cache'[i][LatestKey(n)].value = LastItems(window', n)
      ]_vars

(***************************************************************************)
(* The secondary photos of a dating profile.                               *)
(***************************************************************************)
\* this step is a POST /dating/profile/{user_id}/photos on an existing profile
PhotoPost == profile # None /\ photoResp'.kind \in {"photos", "url"}

\* the URLs the request asks to have stored as secondary photos
Requested ==
    LET primary == extract_primary_photo(profile[1])
        given == {clean_url(photoResp'.payload[k]) : k \in 1..Len(photoResp'.payload)}
        urls == {u[1] : u \in given \ {None, primary}}
    IN  IF photoResp'.kind = "photos" THEN urls
        ELSE urls \cup (Elements(profile[1].photos) \ {u[1] : u \in {primary} \ {None}})

\* the list has no entry twice
NoDuplicates(list) == \A j, k \in 1..Len(list) : list[j] = list[k] => j = k

\* C34: after a successful POST /dating/profile/{user_id}/photos (array
\* replacement or single-url append) the stored secondary photo list has no
\* duplicates, does not contain the profile's primary photo URL and has at most
\* SECONDARY_PHOTO_LIMIT entries, and the profile's primary photo URL is the one
\* it was before; a request that would exceed the limit is answered 400, and a
\* request answered 400 leaves the stored document as it was.
C34_SecondaryPhotosKept ==
    [][ PhotoPost =>
          LET before == profile[1]  after == profile'[1] IN
          /\ photoResp'.status = 200 =>
                /\ NoDuplicates(after.photos)
                /\ extract_primary_photo(after) \notin {Some(u) : u \in Elements(after.photos)}
                /\ Len(after.photos) <= SECONDARY_PHOTO_LIMIT
                /\ extract_primary_photo(after) = extract_primary_photo(before)
          /\ Cardinality(Requested) > SECONDARY_PHOTO_LIMIT => photoResp'.status = 400
          /\ photoResp'.status = 400 => after = before
      ]_vars

(***************************************************************************)
(* Repair of the window after a failed patch.                              *)
(***************************************************************************)
\* no request is in flight and every instance has handled every event
Quiet ==
    /\ \A c \in Clients : req[c].pc = "idle"
    /\ \A i \in Instances : bus[i] = <<>> /\ cons[i].pc = "idle"

\* the request that returned last is a create_message or a backfill_replies
\* (in SpecRepair the requests come one after the other, so it started after
\* every delete_message that has returned)
RepairRan == hist.lastWrite # None /\ hist.lastWrite[1].kind \in {"create", "backfill"}

\* C35: when the window patch of delete_message(X) has failed and the request
\* has succeeded all the same, then once a later create_message (with its
\* message_created event handled) or backfill_replies on the thread is over,
\* every window item of X is marked deleted, with empty text and no media.
C35_WindowSelfHeals ==
    (RepairRan /\ Quiet) =>
        \A x \in hist.patchFailed \cap hist.deleteReturned["A"] :
            \A k \in 1..Len(window) :
                window[k].messageId = x =>
                    window[k].deleted /\ window[k].text = "" /\ ~window[k].media

(***************************************************************************)
(* A deleted message stays deleted.                                        *)
(***************************************************************************)
\* the document or window item is marked deleted and has no text
Tombstone(m) == m.deleted /\ m.text = ""

\* C36: once delete_message(X) has returned, no later step of edit_message,
\* react_message, create_message or backfill_replies undoes it: the document of
\* X in the primary store has deleted = true and empty text, and a window item
\* of X that has them keeps them.
C36_DeletedStaysDeleted ==
    [][ \A x \in hist.deleteReturned["A"] :
          /\ Tombstone(messages'[x])
          /\ ~Appends =>
                \A k \in 1..Len(window) :
                    (window[k].messageId = x /\ Tombstone(window[k])) =>
                        (k <= Len(window') /\ Tombstone(window'[k]))
      ]_vars

(***************************************************************************)
(* Concurrent reactions and edits of one message.                          *)
(***************************************************************************)
\* the update_one of the react_message or edit_message on connection c
ReactWrites(c) == req[c].pc = "r_update" /\ req'[c].pc = "r_invalidate"
EditWrites(c) == req[c].pc = "e_update" /\ req'[c].pc = "e_window"

\* the entry of user v is the same in both reactions maps
SameEntry(old, new, v) ==
    /\ v \in DOMAIN old <=> v \in DOMAIN new
    /\ v \in DOMAIN old => new[v] = old[v]

\* C37: no update of a message is lost to a concurrent request: the write of a
\* react_message changes the entry of the reacting user only and keeps what the
\* toggles of every other user have stored, and the write of an edit_message
\* extends the edits history stored by one entry, the text it replaces.
C37_NoLostReactionOrEdit ==
    [][ \A c \in Clients :
          LET mid == req[c].mid IN
          /\ ReactWrites(c) =>
                \E u \in Reactors : \A v \in Reactors \ {u} :
                    SameEntry(messages[mid].reactions, messages'[mid].reactions, v)
          /\ EditWrites(c) =>
                messages'[mid].edits = Append(messages[mid].edits, messages[mid].text)
      ]_vars

\* the subscription loops have handled every event that was published
LoopsIdle == \A i \in Instances : bus[i] = <<>> /\ cons[i].pc = "idle"

\* the ids of the min(n, T) most recent messages of the primary store
MostRecentIds(msgs, n) ==
    LET all == latest_from_primary(msgs, n) IN { all[k].messageId : k \in 1..Len(all) }

\* C38: a cache-miss get_latest_messages(n) that finds the window document, read
\* while no event is waiting for a subscription loop, returns the min(n, T) most
\* recent messages of the primary store: each of them is in the list read from
\* the window (the length is left out: the window holds one entry per
\* subscription loop, see C32)
C38_WindowReadIsLatest ==
    [][ \A c \in Clients :
          (/\ req[c].pc = "g_redis" /\ req'[c].pc = "g_window"
           /\ req'[c].items # <<>>
           /\ LoopsIdle)
          => MostRecentIds(messages, req[c].n) \subseteq
                 { req'[c].items[k].messageId : k \in 1..Len(req'[c].items) } ]_vars

\* C39 (as stated): handle_cache_event leaves the local cache unchanged when the
\* event's type is not "invalidate", when its pattern is empty or missing, or
\* when the topic does not end with "cache".
C39_IgnoredEventKeepsCache_AsClaimed ==
    [][ (/\ IsCall("event")
         /\ \/ obs'.type # "invalidate"
            \/ obs'.key = <<>>
            \/ ~EndsWith(obs'.topic, "cache"))
        => StoreB' = StoreB /\ obs'.count = 0 ]_vars

\* C39 (amended): the same, with the type compared as the handler compares it,
\* in lower case: an event whose type is not "invalidate" in any letter case, or
\* whose pattern is empty or missing, or whose topic does not end with "cache",
\* leaves every entry of the local cache, value and expiry, as it was, and the
\* handler returns.
C39_IgnoredEventKeepsCache ==
    [][ (/\ IsCall("event")
         /\ \/ Lower(obs'.type) # "invalidate"
            \/ obs'.key = <<>>
            \/ ~EndsWith(obs'.topic, "cache"))
        => StoreB' = StoreB /\ obs'.count = 0 ]_vars

\* C39 witness: an event of type "message_created" with pattern "a:" has been
\* handled on the cache topic while two entries under "a:" are in the cache.
C39_Witness ==
    /\ obs.op = "event" /\ obs.type = "message_created"
    /\ EndsWith(obs.topic, "cache") /\ obs.key = <<"a", ":">>
    /\ {<<"a", ":", "1">>, <<"a", ":", "2">>} \subseteq DOMAIN StoreB

\* the messageIds of a list of documents, in its order
IdsOf(items) == [k \in 1..Len(items) |-> items[k].messageId]

\* a dm_latest request is answered in this step from the DM collection
DmMiss == dmMessages' = dmMessages /\ cache' # cache /\ ~dmResp'.hit /\ dmResp'.n > 0

\* C40: a cache-miss dm_latest(dm_id, count = n) returns the n most recent
\* messages of the DM thread, all of them if fewer than n exist, oldest first.
C40_DmLatestMostRecent ==
    [][ DmMiss => IdsOf(dmResp'.body) = IdsOf(latest_from_primary(dmMessages, dmResp'.n)) ]_vars

=============================================================================
